---------------------------- MODULE Spec2Model ----------------------------
(***************************************************************************)
(* Process supervision and core switching of the panel:                    *)
(*   singbox/config.go          process.Start / Stop / IsRunning            *)
(*   web/service/singbox.go     RestartSingBox / StopSingBox                *)
(*   web/service/setting.go     SwitchCoreWithConversion                    *)
(*   web/job/check_xray_running_job.go   CheckXrayRunningJob.Run            *)
(*   core adapters              GetCoreService, XrayCoreAdapter,            *)
(*                              SingBoxCoreAdapter                          *)
(* XrayService itself is not part of the sources; its process is modelled  *)
(* from the specification of the Process Supervisor.                       *)
(* Further sections, each with a specification of its own:                 *)
(*   GetTraffic of both Control-API clients            SpecTraffic          *)
(*   GetSingBoxConfig and the stored template          SpecBuild            *)
(*   the Xray core config profiles                     SpecProfiles         *)
(*   ConvertXrayToSingBox / ConvertSingBoxToXray       SpecTranslator       *)
(*   the API connection pool of the sing-box service   SpecPool             *)
(*   restartSingBoxMultiMode's push to the nodes       SpecFanOut           *)
(*   the config helpers for user removal and addition  SpecLive             *)
(*   the translator section by section                 SpecSections         *)
(*   saveSetting of multiNodeMode                      SpecMode             *)
(*   GetOrCreateAPI and CloseAPIConnections by steps   SpecPoolRun          *)
(*   the node's Manager of the sing-box process        SpecManager          *)
(***************************************************************************)
EXTENDS Integers, FiniteSets, Sequences, TLC

\* Number of exec.Cmd values (OS child launches) a behaviour may create.
MaxCmds == 2

Cmds == 1..MaxCmds

Threads == {"op", "async", "job"}

CoreTypes == {"xray", "sing-box"}

\* Values SwitchCoreWithConversion may be called with.
NewTypes == {"xray", "sing-box", "v2ray"}

\* Outcomes of the synchronous part of process.Start that the environment
\* decides: the config file cannot be written, the binary is missing, the
\* `check` subcommand rejects the config, or all three pass.
StartEnv == {"ok", "write_fail", "no_binary", "check_fail"}

VARIABLES
    cmds,                  \* exec.Cmd id -> state of the command and its OS child
    singboxProcess,        \* the package-level *singbox.Process of the panel
    p,                     \* a process object driven directly (Start/Stop)
    isManuallyStoppedSB,   \* atomic.Bool of web/service/singbox.go
    singboxLock,           \* holder of singboxLock, or "free"
    stopSt,                \* the process.Stop call in progress, if any
    coreType,              \* setting "coreType"
    xrayTemplateConfig,    \* setting "xrayTemplateConfig"
    singboxTemplateConfig, \* setting "singboxTemplateConfig"
    multiNodeMode,         \* setting "multiNodeMode"
    xrayRunning,           \* XrayService: IsXrayRunning()
    isManuallyStopped,     \* XrayService: manual-stop flag
    checkTime,             \* CheckXrayRunningJob.checkTime
    pc,                    \* per thread: position in the operation it runs
    loc,                   \* per thread: locals of the operation it runs
    ret,                   \* what the operation that returned last returned
    lastObs,               \* what the previous run of the job observed
    lastCounted,           \* what the last run that was not skipped observed
    opStopped,             \* core the operator stopped, no restart requested since
    stopLog,               \* what the last directly driven Stop/Start did
    trafficClient,         \* GetTraffic: the Control-API client queried
    statsSeen,             \* GetTraffic: stat names of the response consumed so far
    tagTrafficMap,         \* GetTraffic: tagTrafficMap
    emailTrafficMap,       \* GetTraffic: emailTrafficMap
    lastStat,              \* GetTraffic: the stat the loop consumed last
    trafficResult,         \* GetTraffic: what the last call returned
    storedTemplate,        \* setting "singboxTemplateConfig" as a document
    dbInbounds,            \* rows of the inbounds table, in GetAllInbounds order
    builtConfig,           \* what the last GetSingBoxConfig call was given and returned
    templateRead,          \* what the last GetSingBoxConfigTemplate call returned
    profiles,              \* xray_core_config_profiles rows of one user: id -> row
    profCall,              \* per request handler: the profile service call it is in
    translated,            \* a config followed by the results of translating it
    singboxAPIConnectionPool, \* sync.Map of web/service/singbox.go: apiPort -> client
    apiReturned,           \* what the last GetOrCreateAPI call returned
    fanOut,                \* restartSingBoxMultiMode: nodes, goroutines, errors, result
    liveConfig,            \* the Config a Process handle holds, and the last helper call on it
    sections,              \* configs by section: one config, then the results of translating it
    modeStore,             \* the multiNodeMode setting (row and cache), the inbound rows, the last save
    poolRun,               \* the API pool step by step: entry, clients, lock, goroutines
    manager                \* the node's Manager: process handle, config, last Stop

procVars == <<p, stopLog>>
panelVars == <<singboxProcess, isManuallyStoppedSB, singboxLock>>
settingVars == <<coreType, xrayTemplateConfig, singboxTemplateConfig, multiNodeMode>>
xrayVars == <<xrayRunning, isManuallyStopped>>
jobVars == <<checkTime, lastObs, lastCounted>>
threadVars == <<pc, loc, ret>>
trafficVars == <<trafficClient, statsSeen, tagTrafficMap, emailTrafficMap, lastStat,
                 trafficResult>>

\* State of the process supervision and the settings, which the request-scoped
\* computations never touch.
panelAll == <<cmds, singboxProcess, p, isManuallyStoppedSB, singboxLock, stopSt,
              coreType, xrayTemplateConfig, singboxTemplateConfig, multiNodeMode,
              xrayRunning, isManuallyStopped, checkTime, pc, loc, ret, lastObs,
              lastCounted, opStopped, stopLog>>

\* State of the request-scoped computations (stat queries, config builds,
\* conversions), which the process supervision never touches.
buildVars == <<storedTemplate, dbInbounds, builtConfig, templateRead>>

profileVars == <<profiles, profCall>>

\* The pool of Control-API clients of the sing-box service.
poolVars == <<singboxAPIConnectionPool, apiReturned>>

\* State of the further request-scoped computations.
furtherVars == <<fanOut, liveConfig, sections, modeStore, poolRun, manager>>

pureVars == <<trafficVars, buildVars, profileVars, translated, furtherVars>>

\* The state outside the further request-scoped computations.
baseVars == <<panelAll, trafficVars, buildVars, profileVars, translated, poolVars>>

exceptFanOut == <<baseVars, liveConfig, sections, modeStore, poolRun, manager>>
exceptLive == <<baseVars, fanOut, sections, modeStore, poolRun, manager>>
exceptSections == <<baseVars, fanOut, liveConfig, modeStore, poolRun, manager>>
exceptMode == <<baseVars, fanOut, liveConfig, sections, poolRun, manager>>
exceptPoolRun == <<baseVars, fanOut, liveConfig, sections, modeStore, manager>>
exceptManager == <<baseVars, fanOut, liveConfig, sections, modeStore, poolRun>>


\* What each of the request-scoped computations leaves alone.
exceptTraffic == <<panelAll, buildVars, profileVars, translated, poolVars, furtherVars>>
exceptBuild == <<panelAll, trafficVars, profileVars, translated, poolVars, furtherVars>>
exceptProfiles == <<panelAll, trafficVars, buildVars, translated, poolVars, furtherVars>>
exceptTranslator == <<panelAll, trafficVars, buildVars, profileVars, poolVars, furtherVars>>

vars == <<cmds, singboxProcess, p, isManuallyStoppedSB, singboxLock, stopSt,
          coreType, xrayTemplateConfig, singboxTemplateConfig, multiNodeMode,
          xrayRunning, isManuallyStopped, checkTime, pc, loc, ret, lastObs,
          lastCounted, opStopped, stopLog, pureVars, poolVars>>

-----------------------------------------------------------------------------
(* exec.Cmd and the OS child.                                              *)
(*   "unused"   no such command yet                                         *)
(*   "pending"  exec.Command built, p.cmd set, `go cmd.Run()` spawned, but  *)
(*              cmd.Start has not run: cmd.Process == nil                   *)
(*   "failed"   cmd.Start failed inside the goroutine: cmd.Process == nil   *)
(*   "alive"    OS child running, ProcessState == nil                       *)
(*   "exited"   OS child has exited, cmd.Wait has not yet set ProcessState  *)
(*   "reaped"   ProcessState != nil                                         *)

NilProcess == [isNil |-> TRUE, cmd |-> 0, exitErr |-> FALSE]

\* newProcess(config): cmd is nil until Start.
newProcess == [isNil |-> FALSE, cmd |-> 0, exitErr |-> FALSE]

\* process.IsRunning: cmd and cmd.Process set, ProcessState nil.
IsRunning(pr) ==
    /\ pr.cmd # 0
    /\ cmds[pr.cmd] \in {"alive", "exited"}

HasFreeCmd == \E c \in Cmds : cmds[c] = "unused"

NextCmd == CHOOSE c \in Cmds : cmds[c] = "unused" /\ \A d \in Cmds : d < c => cmds[d] # "unused"

OsAlive(c) == c # 0 /\ cmds[c] = "alive"

AliveCmds == {c \in Cmds : cmds[c] = "alive"}

\* process.Start: the result, the process object and the commands afterwards.
Start(pr, env) ==
    IF IsRunning(pr)
    THEN [err |-> "already_running", pr |-> pr, cmds |-> cmds, cmd |-> 0]
    ELSE IF env # "ok"
    THEN [err |-> env, pr |-> [pr EXCEPT !.exitErr = TRUE], cmds |-> cmds, cmd |-> 0]
    ELSE [err |-> "nil",
          pr |-> [pr EXCEPT !.cmd = NextCmd],
          cmds |-> [cmds EXCEPT ![NextCmd] = "pending"],
          cmd |-> NextCmd]

\* The goroutine of Start: cmd.Run() starts the OS child, or fails to.
GoRunStart(c) ==
    /\ cmds[c] = "pending"
    /\ \E ok \in BOOLEAN :
         cmds' = [cmds EXCEPT ![c] = IF ok THEN "alive" ELSE "failed"]
    /\ IF p.cmd = c /\ cmds'[c] = "failed"
       THEN p' = [p EXCEPT !.exitErr = TRUE]
       ELSE p' = p
    /\ UNCHANGED <<stopLog, pureVars, poolVars, panelVars, stopSt, settingVars, xrayVars, jobVars,
                   threadVars, opStopped>>

\* The OS child exits: a crash, or the effect of a signal it was sent.
OsExit(c) ==
    /\ cmds[c] = "alive"
    /\ cmds' = [cmds EXCEPT ![c] = "exited"]
    /\ UNCHANGED <<procVars, pureVars, poolVars, panelVars, stopSt, settingVars, xrayVars, jobVars,
                   threadVars, opStopped>>

\* cmd.Run() of the goroutine returns: ProcessState is set.
GoRunReap(c) ==
    /\ cmds[c] = "exited"
    /\ cmds' = [cmds EXCEPT ![c] = "reaped"]
    /\ UNCHANGED <<procVars, pureVars, poolVars, panelVars, stopSt, settingVars, xrayVars, jobVars,
                   threadVars, opStopped>>

-----------------------------------------------------------------------------
(* process.Stop in progress: who runs it, on which command, in which wait. *)

NoStop == [phase |-> "none", cmd |-> 0, owner |-> "none", killed |-> FALSE]

\* What Process.Signal and Process.Kill may answer: nil, or an error once
\* the child has exited (os.ErrProcessDone).
SignalOutcomes(c) == IF c # 0 /\ cmds[c] = "exited" THEN BOOLEAN ELSE {TRUE}

\* First part of process.Stop, up to the select: "not_running", "signal_err"
\* (Signal returned an error) or "waiting".
StopBegin(pr, sigOK) ==
    IF ~IsRunning(pr) THEN "not_running"
    ELSE IF ~sigOK THEN "signal_err"
    ELSE "waiting"

\* done has a value: the p.cmd.Wait() of Stop's goroutine has returned, which
\* it does only once the OS child has exited.
StopWaitReady(c) == cmds[c] \in {"exited", "reaped"}

NoLoc == [op |-> "none", old |-> "none", new |-> "none",
          next |-> "none", pre |-> <<>>, prevCmd |-> 0, stoppedPrev |-> FALSE]

NoRet == [by |-> "none", op |-> "none", res |-> "none", why |-> "none",
          prevCmd |-> 0, stoppedPrev |-> FALSE, newCmd |-> 0]

NoLog == [op |-> "none", res |-> "none", wasRunning |-> FALSE, wasStarted |-> FALSE,
          exited |-> FALSE, killSent |-> FALSE, newCmd |-> 0, before |-> <<>>,
          after |-> <<>>]

Snapshot(ct, xt, st) == <<ct, xt, st>>

\* What the caller of process.Stop does with its result r, by where it waits:
\*   ps_stop  a direct caller: the result is logged
\*   rs_stop  RestartSingBox: the result is dropped, NewProcess/Start follow
\*   ss_stop  StopSingBox: unlocks and returns r to the adapter's caller or
\*            to SwitchCoreWithConversion, which only logs it
StopReturns(t, r, cmds1) ==
    /\ stopSt' = NoStop
    /\ UNCHANGED <<pureVars, poolVars>>
    /\ stopLog' = IF pc[t] = "ps_stop"
                  THEN [NoLog EXCEPT !.op = "Stop", !.res = r, !.wasRunning = TRUE,
                                     !.exited = (cmds1[stopSt.cmd] # "alive"),
                                     !.killSent = stopSt.killed]
                  ELSE stopLog
    /\ pc' = [pc EXCEPT ![t] =
                CASE pc[t] = "ps_stop" -> "idle"
                  [] pc[t] = "rs_stop" -> "rs_start"
                  [] pc[t] = "ss_stop" ->
                        IF loc[t].op = "switch" THEN loc[t].next ELSE "idle"]
    /\ singboxLock' = IF pc[t] = "ss_stop" THEN "free" ELSE singboxLock
    /\ ret' = IF pc[t] = "ss_stop" /\ loc[t].op = "stop"
              THEN [NoRet EXCEPT !.by = t, !.op = "stop",
                                 !.res = IF r = "nil" THEN "nil" ELSE "err",
                                 !.why = r]
              ELSE ret
    /\ loc' = IF pc[t] = "ss_stop" /\ loc[t].op = "stop"
              THEN [loc EXCEPT ![t] = NoLoc]
              ELSE loc
    /\ opStopped' = IF pc[t] = "ss_stop" /\ loc[t].op = "stop" /\ r = "nil"
                    THEN "sing-box" ELSE opStopped
    /\ UNCHANGED <<p, singboxProcess, isManuallyStoppedSB, settingVars, xrayVars,
                   jobVars>>

\* select: `case err := <-done` of either wait: Stop returns nil.
StopWaitDone(t) ==
    /\ stopSt.owner = t
    /\ stopSt.phase \in {"wait5", "wait1"}
    /\ StopWaitReady(stopSt.cmd)
    /\ \/ cmds' = [cmds EXCEPT ![stopSt.cmd] = "reaped"]
       \/ UNCHANGED cmds
    /\ StopReturns(t, "nil", cmds')

\* select: `case <-time.After(5 * time.Second)`: force kill, then wait again.
StopGraceTimeout(t) ==
    /\ stopSt.owner = t
    /\ stopSt.phase = "wait5"
    /\ cmds[stopSt.cmd] \in {"alive", "exited"}
    /\ UNCHANGED cmds
    /\ \E killOK \in SignalOutcomes(stopSt.cmd) :
         IF killOK
         THEN /\ stopSt' = [stopSt EXCEPT !.phase = "wait1", !.killed = TRUE]
              /\ UNCHANGED <<procVars, pureVars, poolVars, panelVars, settingVars, xrayVars, jobVars,
                             threadVars, opStopped>>
         ELSE StopReturns(t, "kill_err", cmds)

\* select: `case <-time.After(1 * time.Second)` after the kill.
StopKillTimeout(t) ==
    /\ stopSt.owner = t
    /\ stopSt.phase = "wait1"
    /\ cmds[stopSt.cmd] \in {"alive", "exited"}
    /\ UNCHANGED cmds
    /\ StopReturns(t, "timeout_err", cmds)

-----------------------------------------------------------------------------
(* A process object driven directly: p.Start() and p.Stop().               *)

ProcStart ==
    /\ pc["op"] = "idle"
    /\ \E env \in StartEnv :
         /\ (env = "ok" /\ ~IsRunning(p)) => HasFreeCmd
         /\ LET r == Start(p, env) IN
              /\ p' = r.pr
              /\ cmds' = r.cmds
              /\ stopLog' = [NoLog EXCEPT !.op = "Start", !.res = r.err,
                               !.wasStarted = (p.cmd # 0 /\ cmds[p.cmd] \in {"pending", "alive"}),
                               !.newCmd = r.cmd,
                               !.before = <<p, cmds>>, !.after = <<r.pr, r.cmds>>]
    /\ UNCHANGED <<panelVars, stopSt, settingVars, xrayVars, jobVars, threadVars,
                   opStopped, pureVars, poolVars>>

ProcStop ==
    /\ pc["op"] = "idle"
    /\ stopSt.phase = "none"
    /\ UNCHANGED <<cmds, p>>
    /\ \E sigOK \in SignalOutcomes(p.cmd) :
         LET b == StopBegin(p, sigOK) IN
           IF b = "waiting"
           THEN /\ stopSt' = [phase |-> "wait5", cmd |-> p.cmd, owner |-> "op",
                              killed |-> FALSE]
                /\ pc' = [pc EXCEPT !["op"] = "ps_stop"]
                /\ UNCHANGED <<stopLog, loc, ret>>
           ELSE /\ stopLog' = [NoLog EXCEPT !.op = "Stop", !.res = b,
                                 !.wasRunning = (b = "signal_err"),
                                 !.exited = (p.cmd = 0 \/ cmds[p.cmd] # "alive"),
                                 !.before = <<p, cmds>>, !.after = <<p', cmds'>>]
                /\ UNCHANGED <<stopSt, threadVars>>
    /\ UNCHANGED <<panelVars, settingVars, xrayVars, jobVars, opStopped, pureVars, poolVars>>

\* make(map[string]*T): a map without keys.
EmptyMap == [k \in {} |-> 0]

\* No stat consumed yet / no call returned yet.
NoStat == [name |-> <<>>, value |-> 0]

NoResult == [returned |-> FALSE, traffics |-> {}, clients |-> {}]

\* No GetTraffic call has been made.
TrafficIdle ==
    /\ trafficClient = "none"
    /\ statsSeen = {}
    /\ tagTrafficMap = EmptyMap
    /\ emailTrafficMap = EmptyMap
    /\ lastStat = NoStat
    /\ trafficResult = NoResult

\* The embedded default template (defaultSingBoxTemplateConfig): a document
\* of the sing-box schema.
DefaultTemplate == [doc |-> "default", form |-> "object", inbounds |-> <<>>]

NoBuild == [built |-> FALSE, err |-> "nil", template |-> DefaultTemplate,
            inbounds |-> <<>>, log |-> {}]

NoRead == [done |-> FALSE, value |-> DefaultTemplate]

\* No config is being built; the default template and no inbound rows.
BuildIdle ==
    /\ storedTemplate = DefaultTemplate
    /\ dbInbounds = <<>>
    /\ builtConfig = NoBuild
    /\ templateRead = NoRead

\* Profiles one user may have.
MaxProfiles == 3

ProfileIds == 1..MaxProfiles

\* The request handlers that may be in the profile service at once.
Callers == {"h1", "h2"}

NoCall == [op |-> "none", id |-> 0, hadDefault |-> FALSE]

\* One default profile (CreateDefaultProfileFromTemplate), no call in progress.
ProfilesIdle ==
    /\ profiles = [i \in ProfileIds |-> IF i = 1 THEN "default" ELSE "absent"]
    /\ profCall = [c \in Callers |-> NoCall]

\* No config is being translated.
TranslatorIdle == translated = <<>>

\* restartSingBoxMultiMode has not been called.
NoFanOut == [phase |-> "idle", nodes |-> {}, nodeInbounds |-> {}, go |-> EmptyMap,
             mu |-> 0, errors |-> <<>>, failed |-> {}, result |-> "none"]

\* Nothing has called the config helpers on a process's Config.
NoLive == [config |-> <<>>, atStart |-> <<>>, calls |-> 0,
           call |-> [op |-> "none", tag |-> "", email |-> "", err |-> "nil",
                     before |-> <<>>, after |-> <<>>]]

\* No config is being translated section by section.
NoSections == [configs |-> <<>>, gen |-> [done |-> FALSE, transport |-> EmptyMap]]

\* No multiNodeMode row, nothing cached, no inbound rows, nothing saved.
NoMode == [db |-> "absent", cache |-> "miss", rows |-> EmptyMap,
           save |-> [done |-> FALSE, old |-> "absent", new |-> "absent",
                     cleaned |-> FALSE]]

\* The clients that GetOrCreateAPI may create in one run, and the goroutines
\* that are in GetOrCreateAPI or in CloseAPIConnections at once.
MaxApiClients == 3
ApiClientIds == 1..MaxApiClients
Getters == {"g1", "g2"}
PoolThreads == Getters \cup {"closer"}

\* An empty pool, no client created, nobody in the pool's functions.
NoPoolRun == [pool |-> 0, conn |-> [c \in ApiClientIds |-> "none"], lock |-> "free",
              pc |-> [t \in PoolThreads |-> "idle"],
              api |-> [t \in PoolThreads |-> 0]]

\* A node Manager as NewManager leaves it when no config file is found.
NilHandle == [st |-> "nil", config |-> 0]
NoManager == [process |-> NilHandle, config |-> 0,
              stop |-> [done |-> FALSE, before |-> NilHandle, after |-> NilHandle,
                        err |-> "nil"]]

FurtherIdle ==
    /\ fanOut = NoFanOut
    /\ liveConfig = NoLive
    /\ sections = NoSections
    /\ modeStore = NoMode
    /\ poolRun = NoPoolRun
    /\ manager = NoManager

PureIdle ==
    /\ TrafficIdle
    /\ BuildIdle
    /\ ProfilesIdle
    /\ TranslatorIdle
    /\ FurtherIdle

\* The one API port of the model: every config keeps the port that
\* refreshAPIPort falls back to.
ApiPorts == {9090}

\* No GetOrCreateAPI call has returned yet.
NoApi == [returned |-> FALSE, err |-> "none", forCmd |-> 0, processCmd |-> 0]

\* CloseAPIConnections: every client is closed and deleted from the pool.
CloseAPIConnections == EmptyMap

PoolIdle ==
    /\ singboxAPIConnectionPool = EmptyMap
    /\ apiReturned = NoApi

InitCommon ==
    /\ PoolIdle
    /\ cmds = [c \in Cmds |-> "unused"]
    /\ stopSt = NoStop
    /\ isManuallyStoppedSB = FALSE
    /\ singboxLock = "free"
    /\ checkTime = 0
    /\ pc = [t \in Threads |-> "idle"]
    /\ loc = [t \in Threads |-> NoLoc]
    /\ ret = NoRet
    /\ lastObs = "none"
    /\ lastCounted = "none"
    /\ opStopped = "none"
    /\ stopLog = NoLog

\* One process object, as NewProcess returns it, and nothing else going on.
InitProc ==
    /\ InitCommon
    /\ PureIdle
    /\ p = newProcess
    /\ singboxProcess = NilProcess
    /\ coreType = "sing-box"
    /\ xrayTemplateConfig = "default"
    /\ singboxTemplateConfig = "default"
    /\ multiNodeMode = FALSE
    /\ xrayRunning = FALSE
    /\ isManuallyStopped = FALSE

NextProc ==
    \/ ProcStart
    \/ ProcStop
    \/ StopWaitDone("op")
    \/ StopGraceTimeout("op")
    \/ StopKillTimeout("op")
    \/ \E c \in Cmds : GoRunStart(c)
    \/ \E c \in Cmds : OsExit(c)
    \/ \E c \in Cmds : GoRunReap(c)

SpecProc == InitProc /\ [][NextProc]_vars

-----------------------------------------------------------------------------
(* Settings.  A stored template is one of                                  *)
(*   "default"    the embedded default template                             *)
(*   "invalid"    empty, the placeholder {} or not JSON                     *)
(*   "dirty"      valid JSON that EnsureSingBoxTemplateConfigValid rewrites *)
(*   "cleaned"    what that rewrite stores                                  *)
(*   "custom"     a valid template the operator stored                      *)
(*   "converted"  what SwitchCoreWithConversion stored                      *)

\* Templates the database may hold when the panel starts.
StoredTemplates == {"default", "invalid"}

\* EnsureSingBoxTemplateConfigValid: the value the setting holds afterwards.
EnsureSingBoxTemplateConfigValid(v) ==
    CASE v = "invalid" -> "default"
      [] v = "dirty" -> "cleaned"
      [] OTHER -> v

\* GetSingBoxConfig: builds the config from the template and the inbounds;
\* dbOK says whether the database answers during the call.
GetSingBoxConfig(dbOK) ==
    IF dbOK
    THEN [err |-> "nil", tmpl |-> EnsureSingBoxTemplateConfigValid(singboxTemplateConfig)]
    ELSE [err |-> "config", tmpl |-> singboxTemplateConfig]

IsSingBoxRunning == ~singboxProcess.isNil /\ IsRunning(singboxProcess)

\* XrayService.DidXrayCrash: not running and not stopped manually.
DidXrayCrash == ~xrayRunning /\ ~isManuallyStopped

\* Whether an OS process of core type ct is alive.
CoreAlive(ct, cmds1, xr) ==
    IF ct = "xray" THEN xr ELSE \E c \in Cmds : cmds1[c] = "alive"

-----------------------------------------------------------------------------
(* RestartSingBox, in two steps: up to the Stop of the old process (or to  *)
(* an early return), and NewProcess + Start.  The caller is the operator   *)
(* or the goroutine of RestartSingBoxAsync (pc idle), the core switch      *)
(* (sw_restart) or the health-check job (job_restart).                     *)

RsCaller(t) ==
    \/ pc[t] = "idle" /\ t \in {"op", "async"}
    \/ pc[t] = "sw_restart" /\ loc[t].new = "sing-box"
    \/ pc[t] = "job_restart" /\ loc[t].old = "sing-box"

RsOp(t) == IF pc[t] = "idle" THEN "restart" ELSE loc[t].op

\* RestartSingBox returns res to its caller; all three callers are done then.
RsReturn(t, op, res, why, l, newCmd) ==
    /\ singboxLock' = "free"
    /\ pc' = [pc EXCEPT ![t] = "idle"]
    /\ loc' = [loc EXCEPT ![t] = NoLoc]
    /\ checkTime' = IF op = "job" THEN 0 ELSE checkTime
    /\ ret' = IF op = "switch"
                 THEN [NoRet EXCEPT !.by = t, !.op = "switch", !.res = res, !.why = why]
                 ELSE IF op = "job"
                 THEN [NoRet EXCEPT !.by = t, !.op = op, !.res = res]
                 ELSE [NoRet EXCEPT !.by = t, !.op = op, !.res = res, !.why = why,
                         !.prevCmd = l.prevCmd, !.stoppedPrev = l.stoppedPrev,
                         !.newCmd = newCmd]

\* isForce as each caller passes it: the switch forces, the job does not.
RsForce(t) ==
    IF pc[t] = "idle" THEN BOOLEAN
    ELSE IF pc[t] = "sw_restart" THEN {TRUE} ELSE {FALSE}

RestartSingBox(t) ==
    /\ RsCaller(t)
    /\ singboxLock = "free"
    /\ isManuallyStoppedSB' = FALSE
    /\ opStopped' = IF RsOp(t) = "job" THEN opStopped ELSE "none"
    /\ UNCHANGED <<cmds, procVars, pureVars, apiReturned, singboxProcess, coreType,
                   xrayTemplateConfig, multiNodeMode, xrayVars, lastObs, lastCounted>>
    /\ LET op == RsOp(t)
           l == [(IF pc[t] = "idle" THEN NoLoc ELSE loc[t]) EXCEPT
                   !.op = op,
                   !.prevCmd = IF OsAlive(singboxProcess.cmd)
                               THEN singboxProcess.cmd ELSE 0]
       IN
       IF multiNodeMode
       THEN \* restartSingBoxMultiMode: no local process is touched
            \E dbOK \in BOOLEAN, pushOK \in BOOLEAN :
               /\ singboxTemplateConfig' = GetSingBoxConfig(dbOK).tmpl
               /\ RsReturn(t, op, IF dbOK /\ pushOK THEN "nil" ELSE "err", "multi",
                           l, 0)
               /\ UNCHANGED <<stopSt, singboxAPIConnectionPool>>
       ELSE \E dbOK \in BOOLEAN :
               LET g == GetSingBoxConfig(dbOK) IN
               /\ singboxTemplateConfig' = g.tmpl
               /\ IF g.err # "nil"
                  THEN /\ RsReturn(t, op, "err", g.err, l, 0)
                       /\ UNCHANGED <<stopSt, singboxAPIConnectionPool>>
                  ELSE IF ~IsSingBoxRunning
                  THEN /\ singboxLock' = t
                       /\ pc' = [pc EXCEPT ![t] = "rs_start"]
                       /\ loc' = [loc EXCEPT ![t] = l]
                       /\ UNCHANGED <<ret, checkTime, stopSt, singboxAPIConnectionPool>>
                  ELSE \E isForce \in RsForce(t), same \in BOOLEAN,
                          sigOK \in SignalOutcomes(singboxProcess.cmd) :
                          IF ~isForce /\ same
                          THEN /\ RsReturn(t, op, "nil", "unchanged", l, 0)
                               /\ UNCHANGED <<stopSt, singboxAPIConnectionPool>>
                          ELSE /\ singboxLock' = t
                               /\ singboxAPIConnectionPool' = CloseAPIConnections
                               /\ UNCHANGED <<ret, checkTime>>
                               /\ IF StopBegin(singboxProcess, sigOK) = "waiting"
                                  THEN /\ stopSt' = [phase |-> "wait5",
                                                     cmd |-> singboxProcess.cmd,
                                                     owner |-> t, killed |-> FALSE]
                                       /\ pc' = [pc EXCEPT ![t] = "rs_stop"]
                                       /\ loc' = [loc EXCEPT ![t] =
                                                    [l EXCEPT !.stoppedPrev = (l.prevCmd # 0)]]
                                  ELSE /\ UNCHANGED stopSt
                                       /\ pc' = [pc EXCEPT ![t] = "rs_start"]
                                       /\ loc' = [loc EXCEPT ![t] = l]

\* singboxProcess = singbox.NewProcess(singboxConfig); err = singboxProcess.Start()
RsStart(t) ==
    /\ pc[t] = "rs_start"
    /\ \E env \in StartEnv :
         /\ env = "ok" => HasFreeCmd
         /\ LET r == Start(newProcess, env) IN
              /\ singboxProcess' = r.pr
              /\ cmds' = r.cmds
              /\ RsReturn(t, loc[t].op, IF r.err = "nil" THEN "nil" ELSE "err", r.err,
                          loc[t], r.cmd)
    /\ UNCHANGED <<procVars, pureVars, poolVars, isManuallyStoppedSB, stopSt, settingVars, xrayVars,
                   lastObs, lastCounted, opStopped>>

-----------------------------------------------------------------------------
(* StopSingBox, called by the operator (through SingBoxCoreAdapter.Stop)   *)
(* or by SwitchCoreWithConversion, which continues at `next`.              *)

StopSingBoxBody(t, op, next) ==
    /\ singboxLock = "free"
    /\ isManuallyStoppedSB' = TRUE
    /\ singboxAPIConnectionPool' = IF IsSingBoxRunning THEN CloseAPIConnections
                                   ELSE singboxAPIConnectionPool
    /\ UNCHANGED <<cmds, procVars, pureVars, apiReturned, singboxProcess, settingVars, xrayVars,
                   jobVars>>
    /\ \E sigOK \in SignalOutcomes(singboxProcess.cmd) :
         LET b == StopBegin(singboxProcess, sigOK) IN
         IF IsSingBoxRunning /\ b = "waiting"
         THEN /\ stopSt' = [phase |-> "wait5", cmd |-> singboxProcess.cmd,
                            owner |-> t, killed |-> FALSE]
              /\ singboxLock' = t
              /\ pc' = [pc EXCEPT ![t] = "ss_stop"]
              /\ loc' = [loc EXCEPT ![t] =
                           [(IF op = "stop" THEN NoLoc ELSE loc[t]) EXCEPT
                              !.op = op, !.next = next]]
              /\ UNCHANGED <<ret, opStopped>>
         ELSE LET r == IF IsSingBoxRunning THEN b ELSE "nil" IN
              /\ UNCHANGED <<stopSt, singboxLock>>
              /\ pc' = [pc EXCEPT ![t] = next]
              /\ loc' = IF op = "stop" THEN [loc EXCEPT ![t] = NoLoc] ELSE loc
              /\ ret' = IF op = "stop"
                        THEN [NoRet EXCEPT !.by = t, !.op = "stop",
                                 !.res = IF r = "nil" THEN "nil" ELSE "err", !.why = r]
                        ELSE ret
              /\ UNCHANGED opStopped

StopSingBox ==
    /\ pc["op"] = "idle"
    /\ StopSingBoxBody("op", "stop", "idle")

-----------------------------------------------------------------------------
(* XrayService (not among the sources): a process that runs or not, and    *)
(* the manual-stop flag that DidXrayCrash reads.                           *)

\* StopXray: sets the manual-stop flag; the process stops unless Stop fails.
StopXrayResult(stopOK) == IF xrayRunning /\ stopOK THEN "nil" ELSE "err"

StopXray ==
    /\ pc["op"] = "idle"
    /\ \E stopOK \in BOOLEAN :
         /\ isManuallyStopped' = TRUE
         /\ xrayRunning' = (xrayRunning /\ ~stopOK)
         /\ ret' = [NoRet EXCEPT !.by = "op", !.op = "stop",
                      !.res = StopXrayResult(stopOK), !.why = "xray"]
         /\ opStopped' = IF StopXrayResult(stopOK) = "nil" THEN "xray" ELSE opStopped
    /\ UNCHANGED <<cmds, procVars, pureVars, poolVars, panelVars, stopSt, settingVars, jobVars, pc, loc>>

\* RestartXray: clears the manual-stop flag; a failed start leaves the
\* previous process as it was.
RestartXray(t) ==
    /\ \/ pc[t] = "idle" /\ t = "op"
       \/ pc[t] = "sw_restart" /\ loc[t].new = "xray"
       \/ pc[t] = "job_restart" /\ loc[t].old = "xray"
    /\ \E startOK \in BOOLEAN :
         LET op == RsOp(t) IN
         /\ isManuallyStopped' = FALSE
         /\ xrayRunning' = (xrayRunning \/ (startOK /\ ~multiNodeMode))
         /\ opStopped' = IF op = "job" THEN opStopped ELSE "none"
         /\ pc' = [pc EXCEPT ![t] = "idle"]
         /\ loc' = [loc EXCEPT ![t] = NoLoc]
         /\ checkTime' = IF op = "job" THEN 0 ELSE checkTime
         /\ ret' = IF op = "switch"
                      THEN [NoRet EXCEPT !.by = t, !.op = "switch",
                              !.res = IF startOK THEN "nil" ELSE "err",
                              !.why = "xray"]
                      ELSE [NoRet EXCEPT !.by = t, !.op = op,
                              !.res = IF startOK THEN "nil" ELSE "err"]
    /\ UNCHANGED <<cmds, procVars, pureVars, poolVars, panelVars, stopSt, settingVars, lastObs, lastCounted>>

\* The Xray process exits on its own.
XrayCrash ==
    /\ xrayRunning
    /\ xrayRunning' = FALSE
    /\ UNCHANGED <<cmds, procVars, pureVars, poolVars, panelVars, stopSt, settingVars, isManuallyStopped,
                   jobVars, threadVars, opStopped>>

-----------------------------------------------------------------------------
(* SwitchCoreWithConversion, run by the operator thread.                   *)

SupportedConversion(old, new) ==
    \/ old = "xray" /\ new = "sing-box"
    \/ old = "sing-box" /\ new = "xray"

\* SwitchCoreWithConversion returns.
SwReturn(res, why) ==
    /\ pc' = [pc EXCEPT !["op"] = "idle"]
    /\ loc' = [loc EXCEPT !["op"] = NoLoc]
    /\ ret' = [NoRet EXCEPT !.by = "op", !.op = "switch", !.res = res, !.why = why]

\* GetCoreType, the no-op test and the read of the current core's config.
SwitchCoreWithConversion ==
    /\ pc["op"] = "idle"
    /\ \E newType \in NewTypes, dbOK \in BOOLEAN :
         LET l == [NoLoc EXCEPT !.op = "switch", !.old = coreType, !.new = newType,
                     !.pre = Snapshot(coreType, xrayTemplateConfig,
                                      singboxTemplateConfig)]
             g == IF coreType = "sing-box" THEN GetSingBoxConfig(dbOK)
                  ELSE [err |-> IF dbOK THEN "nil" ELSE "config",
                        tmpl |-> singboxTemplateConfig]
         IN
         IF coreType = newType
         THEN /\ SwReturn("nil", "noop")
              /\ UNCHANGED <<singboxTemplateConfig, opStopped>>
         ELSE /\ singboxTemplateConfig' = g.tmpl
              /\ opStopped' = "none"
              /\ IF g.err # "nil"
                 THEN SwReturn("err", "get_config")
                 ELSE /\ pc' = [pc EXCEPT !["op"] = "sw_stop_old"]
                      /\ loc' = [loc EXCEPT !["op"] = l]
                      /\ UNCHANGED ret
    /\ UNCHANGED <<cmds, procVars, pureVars, poolVars, panelVars, stopSt, coreType, xrayTemplateConfig,
                   multiNodeMode, xrayVars, jobVars>>

\* StopXray as SwitchCoreWithConversion calls it: the error is only logged.
SwStopXray(next) ==
    /\ \E stopOK \in BOOLEAN :
         /\ isManuallyStopped' = TRUE
         /\ xrayRunning' = (xrayRunning /\ ~stopOK)
    /\ pc' = [pc EXCEPT !["op"] = next]
    /\ UNCHANGED <<cmds, procVars, pureVars, poolVars, panelVars, stopSt, settingVars, jobVars, loc, ret,
                   opStopped>>

SwSkipStop(next) ==
    /\ pc' = [pc EXCEPT !["op"] = next]
    /\ UNCHANGED <<cmds, procVars, pureVars, poolVars, panelVars, stopSt, settingVars, xrayVars, jobVars,
                   loc, ret, opStopped>>

\* oldCore, err := GetCoreService(); if err == nil && oldCore.IsRunning() { oldCore.Stop() }
SwStopOld ==
    /\ pc["op"] = "sw_stop_old"
    /\ IF coreType = "xray"
       THEN IF xrayRunning THEN SwStopXray("sw_stop_other")
            ELSE SwSkipStop("sw_stop_other")
       ELSE IF IsSingBoxRunning
            THEN StopSingBoxBody("op", "switch", "sw_stop_other")
            ELSE SwSkipStop("sw_stop_other")

\* The second stop: Xray when switching to sing-box, sing-box when switching to Xray.
SwStopOther ==
    /\ pc["op"] = "sw_stop_other"
    /\ IF loc["op"].new = "sing-box" /\ xrayRunning
       THEN SwStopXray("sw_wait")
       ELSE IF loc["op"].new = "xray" /\ IsSingBoxRunning
       THEN StopSingBoxBody("op", "switch", "sw_wait")
       ELSE SwSkipStop("sw_wait")

\* The polling loop ends because both cores report not running ...
SwWaitStopped ==
    /\ pc["op"] = "sw_wait"
    /\ ~xrayRunning /\ ~IsSingBoxRunning
    /\ SwSkipStop("sw_convert")

\* ... or because maxWait has passed with one of them still running.
SwWaitExpired ==
    /\ pc["op"] = "sw_wait"
    /\ xrayRunning \/ IsSingBoxRunning
    /\ SwSkipStop("sw_convert")

\* Conversion, saveSetting of the new template, SetCoreType.
SwConvert ==
    /\ pc["op"] = "sw_convert"
    /\ \E saveOK \in BOOLEAN, setOK \in BOOLEAN :
         LET l == loc["op"]
             xt1 == IF l.new = "xray" /\ saveOK THEN "converted" ELSE xrayTemplateConfig
             st1 == IF l.new = "sing-box" /\ saveOK THEN "converted"
                    ELSE singboxTemplateConfig
         IN
         IF ~SupportedConversion(l.old, l.new)
         THEN /\ SwReturn("err", "unsupported")
              /\ UNCHANGED <<coreType, xrayTemplateConfig, singboxTemplateConfig>>
         ELSE /\ xrayTemplateConfig' = xt1
              /\ singboxTemplateConfig' = st1
              /\ IF ~saveOK
                 THEN /\ SwReturn("err", "save")
                      /\ UNCHANGED coreType
                 ELSE IF ~setOK
                 THEN /\ SwReturn("err", "set_core_type")
                      /\ UNCHANGED coreType
                 ELSE /\ coreType' = l.new
                      /\ pc' = [pc EXCEPT !["op"] = "sw_restart"]
                      /\ UNCHANGED <<loc, ret>>
    /\ UNCHANGED <<cmds, procVars, pureVars, poolVars, panelVars, stopSt, multiNodeMode, xrayVars, jobVars,
                   opStopped>>

\* newCore, err := GetCoreService() fails: the switch returns the error.
SwGetCoreFail ==
    /\ pc["op"] = "sw_restart"
    /\ SwReturn("err", "get_core")
    /\ UNCHANGED <<cmds, procVars, pureVars, poolVars, panelVars, stopSt, settingVars, xrayVars, jobVars,
                   opStopped>>

\* newCore.Restart(true): the result is what the switch returns.
SwRestart ==
    /\ pc["op"] = "sw_restart"
    /\ \/ RestartSingBox("op")
       \/ RestartXray("op")

\* The operator asks for a restart of the active core.
OpRestart ==
    /\ pc["op"] = "idle"
    /\ \/ coreType = "sing-box" /\ RestartSingBox("op")
       \/ coreType = "xray" /\ RestartXray("op")

\* The operator stops the active core: GetCoreService, then the adapter's Stop.
OpStop ==
    /\ pc["op"] = "idle"
    /\ \/ coreType = "sing-box" /\ StopSingBox
       \/ coreType = "xray" /\ StopXray

-----------------------------------------------------------------------------
(* CheckXrayRunningJob.Run                                                 *)

\* A job that restarts at the first down observation.
JobObservesEager(dbOK) ==
    LET running == IF coreType = "xray" THEN xrayRunning ELSE IsSingBoxRunning IN
    IF (dbOK /\ multiNodeMode) \/ ~dbOK THEN "skip"
    ELSE IF running THEN "running"
    ELSE IF coreType = "xray" /\ ~DidXrayCrash THEN "notcrashed"
    ELSE IF checkTime + 1 > 0 THEN "restart"
    ELSE "down"

\* The kind of run this is: skipped, core seen running, Xray seen stopped on
\* purpose, core seen down for the first time, or core seen down again.
JobObserves(dbOK) ==
    LET running == IF coreType = "xray" THEN xrayRunning ELSE IsSingBoxRunning IN
    IF (dbOK /\ multiNodeMode) \/ ~dbOK THEN "skip"
    ELSE IF running THEN "running"
    ELSE IF coreType = "xray" /\ ~DidXrayCrash THEN "notcrashed"
    ELSE IF checkTime + 1 > 1 THEN "restart"
    ELSE "down"

JobRun(dbOK) ==
    /\ pc["job"] = "idle"
    /\ LET obs == JobObserves(dbOK) IN
         CASE obs = "skip" -> UNCHANGED <<checkTime, pc, loc>>
           [] obs \in {"running", "notcrashed"} ->
                /\ checkTime' = 0
                /\ UNCHANGED <<pc, loc>>
           [] obs = "down" ->
                /\ checkTime' = checkTime + 1
                /\ UNCHANGED <<pc, loc>>
           [] obs = "restart" ->
                /\ checkTime' = checkTime + 1
                /\ pc' = [pc EXCEPT !["job"] = "job_restart"]
                /\ loc' = [loc EXCEPT !["job"] =
                             [NoLoc EXCEPT !.op = "job", !.old = coreType]]
    /\ UNCHANGED <<cmds, procVars, pureVars, poolVars, panelVars, stopSt, settingVars, xrayVars, ret,
                   opStopped>>

\* A run of the job whose observation is not recorded.
JobTick ==
    /\ \E dbOK \in BOOLEAN : JobRun(dbOK)
    /\ UNCHANGED <<lastObs, lastCounted>>

\* A run of the job, recording what it observed and what the last run that
\* was not skipped observed.
JobTickObserved ==
    \E dbOK \in BOOLEAN :
       /\ JobRun(dbOK)
       /\ lastObs' = JobObserves(dbOK)
       /\ lastCounted' = IF JobObserves(dbOK) = "skip" THEN lastCounted
                         ELSE JobObserves(dbOK)

\* The operator saves the multiNodeMode setting.
SetMultiNodeMode ==
    /\ pc["op"] = "idle"
    /\ multiNodeMode' = ~multiNodeMode
    /\ UNCHANGED <<cmds, procVars, pureVars, poolVars, panelVars, stopSt, coreType, xrayTemplateConfig,
                   singboxTemplateConfig, xrayVars, jobVars, threadVars, opStopped>>

-----------------------------------------------------------------------------

Init ==
    /\ InitCommon
    /\ PureIdle
    /\ p = NilProcess
    /\ singboxProcess = NilProcess
    /\ coreType \in CoreTypes
    /\ xrayTemplateConfig = "default"
    /\ singboxTemplateConfig \in StoredTemplates
    /\ multiNodeMode = FALSE
    /\ xrayRunning = FALSE
    /\ isManuallyStopped = FALSE

\* The goroutines of Start and the OS children.
CmdStep ==
    \/ \E c \in Cmds : GoRunStart(c)
    \/ \E c \in Cmds : OsExit(c)
    \/ \E c \in Cmds : GoRunReap(c)

\* The select of a process.Stop in progress.
StopStep ==
    \/ \E t \in Threads : StopWaitDone(t)
    \/ \E t \in Threads : StopGraceTimeout(t)
    \/ \E t \in Threads : StopKillTimeout(t)

\* The core switch with the health-check job and crashes of either core.
Next ==
    \/ SwitchCoreWithConversion
    \/ SwStopOld
    \/ SwStopOther
    \/ SwWaitStopped
    \/ SwWaitExpired
    \/ SwConvert
    \/ SwGetCoreFail
    \/ SwRestart
    \/ RsStart("op")
    \/ RestartSingBox("job")
    \/ RsStart("job")
    \/ RestartXray("job")
    \/ StopStep
    \/ CmdStep
    \/ XrayCrash
    \/ JobTick

Spec == Init /\ [][Next]_vars

\* The sing-box panel service alone: restarts (synchronous and asynchronous)
\* and stops of the local process.
InitRestart ==
    /\ InitCommon
    /\ PureIdle
    /\ p = NilProcess
    /\ singboxProcess = NilProcess
    /\ coreType = "sing-box"
    /\ xrayTemplateConfig = "default"
    /\ singboxTemplateConfig \in StoredTemplates
    /\ multiNodeMode = FALSE
    /\ xrayRunning = FALSE
    /\ isManuallyStopped = FALSE

NextRestart ==
    \/ RestartSingBox("op")
    \/ RestartSingBox("async")
    \/ RsStart("op")
    \/ RsStart("async")
    \/ StopSingBox
    \/ StopStep
    \/ CmdStep
    \/ SetMultiNodeMode

SpecRestart == InitRestart /\ [][NextRestart]_vars

\* The health-check job with an operator who stops and restarts the active core.
NextJob ==
    \/ OpRestart
    \/ OpStop
    \/ RestartSingBox("job")
    \/ RsStart("op")
    \/ RsStart("job")
    \/ RestartXray("job")
    \/ StopStep
    \/ CmdStep
    \/ XrayCrash
    \/ JobTickObserved
    \/ SetMultiNodeMode

SpecJob == Init /\ [][NextJob]_vars

-----------------------------------------------------------------------------
(* Properties of SwitchCoreWithConversion.                                 *)

\* The step in which SwitchCoreWithConversion returns.
SwitchReturns ==
    \/ pc["op"] = "idle" /\ SwitchCoreWithConversion /\ pc'["op"] = "idle"
    \/ pc["op"] # "idle" /\ loc["op"].op = "switch" /\ pc'["op"] = "idle"

\* coreType and the two templates as they were when the switch was called.
SwPre ==
    IF pc["op"] = "idle"
    THEN Snapshot(coreType, xrayTemplateConfig, singboxTemplateConfig)
    ELSE loc["op"].pre

\* C1: whenever SwitchCoreWithConversion returns an error, the persisted
\* coreType equals the value it had before the call.
C1_CoreTypeKeptOnError ==
    [][(SwitchReturns /\ ret'.res = "err") => coreType' = SwPre[1]]_vars

\* C2: whenever SwitchCoreWithConversion returns an error, xrayTemplateConfig
\* and singboxTemplateConfig hold the values they held before the call.
C2_TemplatesKeptOnError ==
    [][(SwitchReturns /\ ret'.res = "err") =>
          /\ xrayTemplateConfig' = SwPre[2]
          /\ singboxTemplateConfig' = SwPre[3]]_vars

\* C8: when SwitchCoreWithConversion returns nil for a new type that differs
\* from the previous core type, coreType is the new type and no process of the
\* previous core type is running.
C8_OldCoreStoppedOnSuccess ==
    [][(SwitchReturns /\ ret'.res = "nil" /\ pc["op"] # "idle"
          /\ loc["op"].new # loc["op"].old) =>
          /\ coreType' = loc["op"].new
          /\ ~CoreAlive(loc["op"].old, cmds', xrayRunning')]_vars

-----------------------------------------------------------------------------
(* Properties of RestartSingBox and of the panel's single sing-box child.  *)

\* Results of process.Start that mean the new process did not validate or start.
StartFailures == {"write_fail", "no_binary", "check_fail"}

\* C3: when a restart fails because the new process fails to validate or
\* start, a previous process that was alive when the restart was requested
\* has not been stopped by the restart and brought down.
C3_OldProcessKeptOnFailedRestart ==
    (ret.op = "restart" /\ ret.res = "err" /\ ret.why \in StartFailures
       /\ ret.prevCmd # 0) =>
        ~(ret.stoppedPrev /\ cmds[ret.prevCmd] # "alive")

\* C4: in every reachable state at most one sing-box OS child launched by the
\* panel is alive.
C4_AtMostOneChildAlive == Cardinality(AliveCmds) <= 1

\* C10: when RestartSingBox has started a new process and returned nil, the
\* `run` command has actually been launched: it is neither still waiting to
\* be started nor has it failed to start.
C10_NilMeansLaunched ==
    (ret.op = "restart" /\ ret.res = "nil" /\ ret.newCmd # 0) =>
        cmds[ret.newCmd] \in {"alive", "exited", "reaped"}

-----------------------------------------------------------------------------
(* Properties of process.Start and process.Stop.                           *)

\* C5: Stop on a process that is not running returns an error and changes
\* nothing; Start on a process that has been started and has not exited
\* returns an error and launches no second command.
C5_StopStartGuards ==
    /\ (stopLog.op = "Stop" /\ ~stopLog.wasRunning) =>
          (stopLog.res = "not_running" /\ stopLog.before = stopLog.after)
    /\ (stopLog.op = "Start" /\ stopLog.wasStarted) =>
          (stopLog.res = "already_running" /\ stopLog.newCmd = 0)

\* C9: Stop on a running process returns nil only after the OS child has
\* exited, and returns an error only if the child has still not exited after
\* the force-kill that follows the timed-out graceful wait.
C9_StopResult ==
    (stopLog.op = "Stop" /\ stopLog.wasRunning) =>
        /\ stopLog.res = "nil" => stopLog.exited
        /\ stopLog.res # "nil" => (stopLog.killSent /\ ~stopLog.exited)

-----------------------------------------------------------------------------
(* Properties of CheckXrayRunningJob.                                      *)

\* The step in which the job decides to call Restart(false).
JobCallsRestart == pc["job"] = "idle" /\ pc'["job"] = "job_restart"

\* C6, for the sing-box core: after the operator has stopped the active core
\* through the adapter's Stop, no run of the job calls Restart on it until a
\* restart has been requested.
C6_NoRestartAfterManualStop ==
    [][(JobCallsRestart /\ coreType = "sing-box") => opStopped # "sing-box"]_vars

\* C7 as stated: the job calls Restart(false) only on a run whose immediately
\* preceding run observed the core down.
C7_RestartOnlyAfterDownRun ==
    [][JobCallsRestart => lastObs = "down"]_vars

\* C7: the job calls Restart(false) only on a run that observes the core down
\* when the last run that was not skipped (multi-node mode on, or the core
\* service unavailable) also observed it down without restarting: never on the
\* first down observation after a running observation, a not-crashed
\* observation or a restart attempt.
C7_RestartOnlyAfterCountedDown ==
    [][JobCallsRestart => (lastCounted = "down" /\ checkTime = 1)]_vars

\* The job is calling Restart(false) on its second down observation in a row.
C7_Witness ==
    /\ pc["job"] = "job_restart"
    /\ lastCounted = "restart"
    /\ checkTime = 2

-----------------------------------------------------------------------------
(* Traffic statistics of the two Control-API clients.                      *)
(* A stat name is the sequence of its parts between the ">>>" separators.  *)

\* Stats one response may carry.
MaxStats == 3

StatIds == {"api", "a"}

Directions == {"downlink", "uplink"}

StatValues == {1, 2}

\* Names of the documented form, and two that are not of that form.
StatNames ==
    ({"inbound", "outbound", "user"} \X StatIds \X {"traffic"} \X Directions)
        \cup {<<"inbound", "a", "traffic">>, <<"inbound", "a", "sys", "downlink">>}

ApiClients == {"xray", "sing-box"}

\* trafficRegex of XrayAPI.GetTraffic: the submatches, or <<>> without a match.
TrafficRegex(name) ==
    IF Len(name) = 4 /\ name[1] \in {"inbound", "outbound"} /\ name[3] = "traffic"
                     /\ name[4] \in Directions
    THEN <<name[1], name[2], name[4]>>
    ELSE <<>>

\* clientTrafficRegex of XrayAPI.GetTraffic.
ClientTrafficRegex(name) ==
    IF Len(name) = 4 /\ name[1] = "user" /\ name[3] = "traffic" /\ name[4] \in Directions
    THEN <<name[2], name[4]>>
    ELSE <<>>

\* processTraffic: the map after the call.
processTraffic(matches, value, trafficMap) ==
    LET isInbound == matches[1] = "inbound"
        tag == matches[2]
        isDown == matches[3] = "downlink"
        traffic == IF tag \in DOMAIN trafficMap
                   THEN trafficMap[tag]
                   ELSE [IsInbound |-> isInbound, IsOutbound |-> ~isInbound,
                         Tag |-> tag, Up |-> 0, Down |-> 0]
    IN  IF tag = "api"
        THEN trafficMap
        ELSE [k \in DOMAIN trafficMap \cup {tag} |->
                IF k # tag THEN trafficMap[k]
                ELSE IF isDown
                     THEN [traffic EXCEPT !.Down = value]
                     ELSE [traffic EXCEPT !.Up = value]]

\* processClientTraffic: the map after the call.
processClientTraffic(matches, value, clientTrafficMap) ==
    LET email == matches[1]
        isDown == matches[2] = "downlink"
        traffic == IF email \in DOMAIN clientTrafficMap
                   THEN clientTrafficMap[email]
                   ELSE [Email |-> email, Up |-> 0, Down |-> 0]
    IN  [k \in DOMAIN clientTrafficMap \cup {email} |->
            IF k # email THEN clientTrafficMap[k]
            ELSE IF isDown
                 THEN [traffic EXCEPT !.Down = value]
                 ELSE [traffic EXCEPT !.Up = value]]

\* parseTrafficKey: the parsed components ("" for a key that is not set),
\* isNil for a name that does not have four parts.
parseTrafficKey(key) ==
    IF Len(key) # 4
    THEN [isNil |-> TRUE, type |-> "", tag |-> "", email |-> "", direction |-> ""]
    ELSE [isNil |-> FALSE,
          type |-> key[1],
          tag |-> IF key[1] \in {"inbound", "outbound"} THEN key[2] ELSE "",
          email |-> IF key[1] = "user" THEN key[2] ELSE "",
          direction |-> IF key[3] = "traffic" THEN key[4] ELSE ""]

\* The body of the loop of SingBoxAPI.GetTraffic: the two maps after it.
SingBoxStat(key, value, tagMap, emailMap) ==
    LET matches == parseTrafficKey(key)
        isDown == matches.direction = "downlink"
        tag == matches.tag
        email == matches.email
        traffic == IF tag \in DOMAIN tagMap
                   THEN tagMap[tag]
                   ELSE [IsInbound |-> matches.type = "inbound",
                         IsOutbound |-> matches.type # "inbound",
                         Tag |-> tag, Up |-> 0, Down |-> 0]
        clientTraffic == IF email \in DOMAIN emailMap
                         THEN emailMap[email]
                         ELSE [Email |-> email, Up |-> 0, Down |-> 0]
    IN  IF matches.isNil
        THEN <<tagMap, emailMap>>
        ELSE IF matches.type \in {"inbound", "outbound"}
        THEN <<[k \in DOMAIN tagMap \cup {tag} |->
                  IF k # tag THEN tagMap[k]
                  ELSE IF isDown
                       THEN [traffic EXCEPT !.Down = value]
                       ELSE [traffic EXCEPT !.Up = value]],
               emailMap>>
        ELSE IF matches.type = "user"
        THEN <<tagMap,
               [k \in DOMAIN emailMap \cup {email} |->
                  IF k # email THEN emailMap[k]
                  ELSE IF isDown
                       THEN [clientTraffic EXCEPT !.Down = value]
                       ELSE [clientTraffic EXCEPT !.Up = value]]>>
        ELSE <<tagMap, emailMap>>

\* mapToSlice: the records of a map (their order is the map's iteration order).
mapToSlice(m) == {m[k] : k \in DOMAIN m}

\* SingBoxCoreAdapter.GetTraffic: copies each record field by field.
AdapterGetTraffic(sbTraffic, sbClientTraffic) ==
    [returned |-> TRUE,
     traffics |-> {[IsInbound |-> t.IsInbound, IsOutbound |-> t.IsOutbound,
                    Tag |-> t.Tag, Up |-> t.Up, Down |-> t.Down] : t \in sbTraffic},
     clients |-> {[Email |-> ct.Email, Up |-> ct.Up, Down |-> ct.Down] :
                    ct \in sbClientTraffic}]

\* GetTraffic is called on one of the clients: fresh maps.
GetTrafficCall ==
    /\ trafficClient = "none" \/ trafficResult.returned
    /\ trafficClient' \in ApiClients
    /\ statsSeen' = {}
    /\ tagTrafficMap' = EmptyMap
    /\ emailTrafficMap' = EmptyMap
    /\ lastStat' = NoStat
    /\ trafficResult' = NoResult
    /\ UNCHANGED exceptTraffic

\* One iteration of the loop of XrayAPI.GetTraffic over resp.GetStat().
XrayGetTrafficStat ==
    /\ trafficClient = "xray"
    /\ ~trafficResult.returned
    /\ Cardinality(statsSeen) < MaxStats
    /\ \E name \in StatNames \ statsSeen, value \in StatValues :
         /\ statsSeen' = statsSeen \cup {name}
         /\ lastStat' = [name |-> name, value |-> value]
         /\ IF TrafficRegex(name) # <<>>
            THEN /\ tagTrafficMap' = processTraffic(TrafficRegex(name), value, tagTrafficMap)
                 /\ UNCHANGED emailTrafficMap
            ELSE IF ClientTrafficRegex(name) # <<>>
            THEN /\ emailTrafficMap' =
                      processClientTraffic(ClientTrafficRegex(name), value, emailTrafficMap)
                 /\ UNCHANGED tagTrafficMap
            ELSE UNCHANGED <<tagTrafficMap, emailTrafficMap>>
    /\ UNCHANGED <<trafficClient, trafficResult, exceptTraffic>>

\* One iteration of the loop of SingBoxAPI.GetTraffic over the stats map,
\* which Go ranges over in no particular order.
SingBoxGetTrafficStat ==
    /\ trafficClient = "sing-box"
    /\ ~trafficResult.returned
    /\ Cardinality(statsSeen) < MaxStats
    /\ \E key \in StatNames \ statsSeen, value \in StatValues :
         LET maps == SingBoxStat(key, value, tagTrafficMap, emailTrafficMap) IN
           /\ statsSeen' = statsSeen \cup {key}
           /\ lastStat' = [name |-> key, value |-> value]
           /\ tagTrafficMap' = maps[1]
           /\ emailTrafficMap' = maps[2]
    /\ UNCHANGED <<trafficClient, trafficResult, exceptTraffic>>

\* GetTraffic returns: XrayAPI returns the slices, the sing-box slices pass
\* through SingBoxCoreAdapter.GetTraffic.
GetTrafficReturns ==
    /\ trafficClient \in ApiClients
    /\ ~trafficResult.returned
    /\ trafficResult' =
         IF trafficClient = "xray"
         THEN [returned |-> TRUE, traffics |-> mapToSlice(tagTrafficMap),
               clients |-> mapToSlice(emailTrafficMap)]
         ELSE AdapterGetTraffic(mapToSlice(tagTrafficMap), mapToSlice(emailTrafficMap))
    /\ UNCHANGED <<trafficClient, statsSeen, tagTrafficMap, emailTrafficMap, lastStat,
                   exceptTraffic>>

\* The panel at rest: no process, no operation in progress.
PanelIdle ==
    /\ InitCommon
    /\ p = NilProcess
    /\ singboxProcess = NilProcess
    /\ coreType = "sing-box"
    /\ xrayTemplateConfig = "default"
    /\ singboxTemplateConfig = "default"
    /\ multiNodeMode = FALSE
    /\ xrayRunning = FALSE
    /\ isManuallyStopped = FALSE

InitTraffic ==
    /\ PanelIdle
    /\ FurtherIdle
    /\ TrafficIdle
    /\ BuildIdle
    /\ ProfilesIdle
    /\ TranslatorIdle

NextTraffic ==
    \/ GetTrafficCall
    \/ XrayGetTrafficStat
    \/ SingBoxGetTrafficStat
    \/ GetTrafficReturns

SpecTraffic == InitTraffic /\ [][NextTraffic]_vars

\* A stat name of the documented form <inbound|outbound|user>>>id>>>traffic>>><dir>.
StatDocumented(name) ==
    /\ Len(name) = 4
    /\ name[1] \in {"inbound", "outbound", "user"}
    /\ name[3] = "traffic"
    /\ name[4] \in Directions

\* The record a stat name addresses, before (m) and after (m1) an iteration;
\* a record not in the map counts as all zero.
FieldOf(m, id, field) == IF id \in DOMAIN m THEN m[id][field] ELSE 0

\* C11: every stat key of the documented form with value v adds v to the Down
\* field of the record for its id when the direction is downlink and to the Up
\* field when it is uplink, in both clients (in a response whose keys are all
\* of that form; the keys of the reserved tag api, which the Xray client leaves
\* out, aside).
C11_StatAddsToItsField ==
    [][(lastStat' # lastStat /\ (\A n \in statsSeen' : StatDocumented(n))
          /\ ~(trafficClient = "xray" /\ lastStat'.name[1] # "user"
                 /\ lastStat'.name[2] = "api"))
        => LET st == lastStat'
               id == st.name[2]
               field == IF st.name[4] = "downlink" THEN "Down" ELSE "Up"
               m == IF st.name[1] = "user" THEN emailTrafficMap ELSE tagTrafficMap
               m1 == IF st.name[1] = "user" THEN emailTrafficMap' ELSE tagTrafficMap'
           IN  FieldOf(m1, id, field) = FieldOf(m, id, field) + st.value]_vars

\* C12: no inbound record returned by GetTraffic of either client carries the
\* reserved tag api.
C12_NoApiInboundReturned ==
    \A t \in trafficResult.traffics : ~(t.IsInbound /\ t.Tag = "api")

-----------------------------------------------------------------------------
(* The sing-box Config Builder: GetSingBoxConfig.                          *)
(* A template is a document: doc tells the embedded default from a stored  *)
(* one, form is what the stored text is, inbounds its inbound list.        *)
(*   "missing"      no row for the key                                     *)
(*   "empty"        "" after TrimSpace                                      *)
(*   "placeholder"  "{}"                                                    *)
(*   "syntax"       not a JSON object                                       *)
(*   "schema"       a JSON object whose inbounds is not a list of inbound   *)
(*                  objects, so it is no singbox.Config                     *)
(*   "object"       a JSON object of the singbox.Config schema              *)

\* Inbounds a stored template may list, and rows the inbounds table may hold.
MaxTemplateInbounds == 2

MaxDbInbounds == 2

Tags == {"", "t1", "t2"}

TemplateTypes == {"vless", "tunnel"}

\* Values of model.Protocol among the rows.
Protocols == {"vless", "tunnel", "wireguard"}

SeqsUpTo(S, n) == UNION {[1..k -> S] : k \in 0..n}

TemplateInbounds == [type : TemplateTypes, tag : Tags, from : {"template"}]

StoredTemplateValues ==
    {[doc |-> "stored", form |-> f, inbounds |-> <<>>] :
        f \in {"missing", "empty", "placeholder", "syntax", "schema"}}
      \cup {[doc |-> "stored", form |-> "object", inbounds |-> ibs] :
              ibs \in SeqsUpTo(TemplateInbounds, MaxTemplateInbounds)}
      \cup {DefaultTemplate}

\* tag is UNIQUE in the inbounds table.
DbInboundValues ==
    {rows \in SeqsUpTo([protocol : Protocols, tag : Tags, enable : BOOLEAN],
                       MaxDbInbounds) :
        \A i, j \in DOMAIN rows : i # j => rows[i].tag # rows[j].tag}

\* EnsureSingBoxTemplateConfigValid on the document: what is stored after it.
EnsureTemplateDocument(tmpl) ==
    IF tmpl.form \in {"missing", "empty", "placeholder", "syntax"}
    THEN DefaultTemplate
    ELSE IF tmpl.form = "object"
              /\ \E i \in DOMAIN tmpl.inbounds :
                    tmpl.inbounds[i].type \in {"tunnel", "wireguard"}
    THEN [tmpl EXCEPT !.inbounds =
            SelectSeq(tmpl.inbounds, LAMBDA ib : ib.type \notin {"tunnel", "wireguard"})]
    ELSE tmpl

\* The first loop of GetSingBoxConfig: template inbounds of a type sing-box
\* does not have are left out.
filteredInbounds(ibs) ==
    SelectSeq(ibs, LAMBDA ib : ib.type \notin {"tunnel", "wireguard"})

\* Tags of the enabled rows.
dbInboundTags(inbounds) ==
    {inbounds[i].tag : i \in {j \in DOMAIN inbounds :
                                inbounds[j].enable /\ inbounds[j].tag # ""}}

\* The second loop: template inbounds whose tag is taken are left out, and
\* each tag kept is taken from then on.
RECURSIVE finalFilteredInbounds(_, _)
finalFilteredInbounds(ibs, taken) ==
    IF ibs = <<>> THEN <<>>
    ELSE LET ib == Head(ibs) IN
         IF ib.tag # "" /\ ib.tag \in taken
         THEN finalFilteredInbounds(Tail(ibs), taken)
         ELSE <<ib>> \o finalFilteredInbounds(Tail(ibs), taken \cup ({ib.tag} \ {""}))

\* GenSingBoxInboundConfig without the nil result for wireguard.
GenSingBoxInboundConfigAny(i) ==
    IF i.protocol = "tunnel"
    THEN [isNil |-> TRUE, type |-> "", tag |-> "", from |-> "db"]
    ELSE [isNil |-> FALSE, type |-> i.protocol, tag |-> i.tag, from |-> "db"]

\* Inbound.GenSingBoxInboundConfig: nil for a protocol that is not supported.
GenSingBoxInboundConfig(i) ==
    IF i.protocol \in {"tunnel", "wireguard"}
    THEN [isNil |-> TRUE, type |-> "", tag |-> "", from |-> "db"]
    ELSE IF i.protocol \notin {"vmess", "vless", "trojan", "shadowsocks", "http", "mixed"}
    THEN [isNil |-> TRUE, type |-> "", tag |-> "", from |-> "db"]
    ELSE [isNil |-> FALSE, type |-> i.protocol, tag |-> i.tag, from |-> "db"]

NotNil(ib) == [type |-> ib.type, tag |-> ib.tag, from |-> ib.from]

\* The last loop: the inbounds of the config after the rows are merged in.
RECURSIVE MergeDbInbounds(_, _)
MergeDbInbounds(config, inbounds) ==
    IF inbounds = <<>> THEN config
    ELSE LET inbound == Head(inbounds)
             inboundConfig == GenSingBoxInboundConfig(inbound)
             tagExists == \E k \in DOMAIN config : config[k].tag = inboundConfig.tag
         IN  IF ~inbound.enable \/ inboundConfig.isNil
             THEN MergeDbInbounds(config, Tail(inbounds))
             ELSE IF inboundConfig.tag # "" /\ tagExists
             THEN MergeDbInbounds(config, Tail(inbounds))
             ELSE MergeDbInbounds(Append(config, NotNil(inboundConfig)), Tail(inbounds))

\* The warnings logged about inbounds left out: template inbounds by
\* EnsureSingBoxTemplateConfigValid or the first loop, rows by the last loop.
BuildWarnings(tmplInbounds, inbounds) ==
    {[what |-> "template_unsupported", tag |-> tmplInbounds[i].tag] :
        i \in {j \in DOMAIN tmplInbounds :
                 tmplInbounds[j].type \in {"tunnel", "wireguard"}}}
      \cup {[what |-> "db_unsupported", tag |-> inbounds[i].tag] :
              i \in {j \in DOMAIN inbounds :
                       inbounds[j].enable /\ GenSingBoxInboundConfig(inbounds[j]).isNil}}

\* GetSingBoxConfig on a stored template and the rows: what is stored after
\* it, the error and the inbounds of the config returned.
BuildSingBoxConfig(tmpl, inbounds, dbOK) ==
    LET stored == EnsureTemplateDocument(tmpl)
        fromTemplate == finalFilteredInbounds(filteredInbounds(stored.inbounds),
                                              dbInboundTags(inbounds))
    IN  IF stored.form # "object"
        THEN [stored |-> stored, err |-> "unmarshal", inbounds |-> <<>>, log |-> {}]
        ELSE IF ~dbOK
        THEN [stored |-> stored, err |-> "get_inbounds", inbounds |-> <<>>,
              log |-> BuildWarnings(tmpl.inbounds, <<>>)]
        ELSE [stored |-> stored, err |-> "nil",
              inbounds |-> MergeDbInbounds(fromTemplate, inbounds),
              log |-> BuildWarnings(tmpl.inbounds, inbounds)]

\* GetSingBoxConfig is called.
BuildConfig ==
    /\ ~builtConfig.built
    /\ \E dbOK \in BOOLEAN :
         LET r == BuildSingBoxConfig(storedTemplate, dbInbounds, dbOK) IN
           /\ storedTemplate' = r.stored
           /\ builtConfig' = [built |-> TRUE, err |-> r.err, template |-> storedTemplate,
                              inbounds |-> r.inbounds, log |-> r.log]
    /\ UNCHANGED <<dbInbounds, templateRead, exceptBuild>>

\* GetSingBoxConfigTemplate: the stored value, the default without a row.
ReadTemplate ==
    /\ builtConfig.built
    /\ ~templateRead.done
    /\ templateRead' = [done |-> TRUE,
                        value |-> IF storedTemplate.form = "missing"
                                  THEN DefaultTemplate
                                  ELSE storedTemplate]
    /\ UNCHANGED <<storedTemplate, dbInbounds, builtConfig, exceptBuild>>

InitBuild ==
    /\ PanelIdle
    /\ FurtherIdle
    /\ TrafficIdle
    /\ ProfilesIdle
    /\ TranslatorIdle
    /\ storedTemplate \in StoredTemplateValues
    /\ dbInbounds \in DbInboundValues
    /\ builtConfig = NoBuild
    /\ templateRead = NoRead

NextBuild ==
    \/ BuildConfig
    \/ ReadTemplate

SpecBuild == InitBuild /\ [][NextBuild]_vars

\* Positions of the inbounds of the built config that carry a tag.
WithTag(tag) == {k \in DOMAIN builtConfig.inbounds : builtConfig.inbounds[k].tag = tag}

\* Tags a template inbound and an enabled row share in the call's input.
SharedTags ==
    {tag \in Tags \ {""} :
        /\ \E i \in DOMAIN builtConfig.template.inbounds :
              builtConfig.template.inbounds[i].tag = tag
        /\ \E j \in DOMAIN dbInbounds : dbInbounds[j].enable /\ dbInbounds[j].tag = tag}

\* C13: if a template inbound and an enabled database inbound share a tag, the
\* config GetSingBoxConfig builds holds exactly one inbound with that tag, the
\* one generated from the database inbound.
C13_SharedTagDbWins ==
    (builtConfig.built /\ builtConfig.err = "nil") =>
        \A tag \in SharedTags :
            /\ Cardinality(WithTag(tag)) = 1
            /\ \A k \in WithTag(tag) : builtConfig.inbounds[k].from = "db"

\* C14: the config GetSingBoxConfig builds holds no inbound of a protocol
\* sing-box does not support (tunnel, wireguard), holds every enabled database
\* inbound of a supported protocol, and every inbound left out for its protocol
\* is logged and never makes the build fail.
C14_UnsupportedLeftOutSupportedKept ==
    builtConfig.built =>
        /\ \A k \in DOMAIN builtConfig.inbounds :
              builtConfig.inbounds[k].type \notin {"tunnel", "wireguard"}
        /\ builtConfig.err # "nil" =>
              builtConfig.err = "get_inbounds" \/ builtConfig.template.form = "schema"
        /\ builtConfig.err = "nil" =>
              /\ \A j \in DOMAIN dbInbounds :
                    LET row == dbInbounds[j] IN
                      IF ~row.enable THEN TRUE
                      ELSE IF row.protocol \in {"tunnel", "wireguard"}
                      THEN [what |-> "db_unsupported", tag |-> row.tag] \in builtConfig.log
                      ELSE \E k \in DOMAIN builtConfig.inbounds :
                              builtConfig.inbounds[k] =
                                 [type |-> row.protocol, tag |-> row.tag, from |-> "db"]
              /\ \A i \in DOMAIN builtConfig.template.inbounds :
                    LET ib == builtConfig.template.inbounds[i] IN
                      ib.type \in {"tunnel", "wireguard"} =>
                         [what |-> "template_unsupported", tag |-> ib.tag] \in builtConfig.log

\* A build that left out a wireguard row and a tunnel inbound of the template
\* and kept the vless row.
C14_Witness ==
    /\ builtConfig.built
    /\ builtConfig.err = "nil"
    /\ \E j \in DOMAIN dbInbounds :
          dbInbounds[j].enable /\ dbInbounds[j].protocol = "wireguard"
    /\ \E j \in DOMAIN dbInbounds :
          dbInbounds[j].enable /\ dbInbounds[j].protocol = "vless"
    /\ \E i \in DOMAIN builtConfig.template.inbounds :
          builtConfig.template.inbounds[i].type = "tunnel"
    /\ Len(builtConfig.inbounds) = 1

\* C15: when the stored template is empty, the placeholder {} or does not
\* deserialize into the sing-box config schema, GetSingBoxConfig succeeds
\* (the inbound rows being readable) and a later read of the stored template
\* returns the embedded default.
C15_BadTemplateHealed ==
    (builtConfig.built
       /\ builtConfig.template.form \in {"empty", "placeholder", "syntax", "schema"}
       /\ builtConfig.err # "get_inbounds") =>
        /\ builtConfig.err = "nil"
        /\ templateRead.done => templateRead.value = DefaultTemplate

-----------------------------------------------------------------------------
(* The profile service: AddProfile, UpdateProfile, SetAsDefault of one     *)
(* user, statement by statement. A row is "absent", "plain" (is_default =  *)
(* false) or "default" (is_default = true); id 0 is an id that is not one  *)
(* of the user's profiles.                                                 *)

Defaults(rows) == {i \in ProfileIds : rows[i] = "default"}

\* UPDATE ... SET is_default = false WHERE user_id = ? AND is_default = true
\* [AND id != ?] (keep = 0: no id is excepted).
UnsetDefaults(rows, keep) ==
    [i \in ProfileIds |-> IF rows[i] = "default" /\ i # keep THEN "plain" ELSE rows[i]]

\* UPDATE ... SET is_default = true WHERE id = ? [AND user_id = ?]: no row
\* matches an id the user has no profile of.
SetDefault(rows, id) ==
    [i \in ProfileIds |-> IF i = id /\ rows[i] # "absent" THEN "default" ELSE rows[i]]

FreeIds == {i \in ProfileIds : profiles[i] = "absent"}

\* AddProfile: the unset statement when the new profile is the default one,
\* the insert at once when it is not.
AddProfile(c) ==
    /\ profCall[c].op = "none"
    /\ FreeIds # {}
    /\ \E isDefault \in BOOLEAN :
         IF isDefault
         THEN /\ profiles' = UnsetDefaults(profiles, 0)
              /\ profCall' = [profCall EXCEPT ![c] = [NoCall EXCEPT !.op = "add_create"]]
         ELSE /\ \E id \in FreeIds : profiles' = [profiles EXCEPT ![id] = "plain"]
              /\ UNCHANGED profCall
    /\ UNCHANGED exceptProfiles

\* AddProfile with IsDefault: db.Create (nothing is inserted once the
\* MaxProfiles ids are taken).
AddProfileCreate(c) ==
    /\ profCall[c].op = "add_create"
    /\ IF FreeIds = {}
       THEN UNCHANGED profiles
       ELSE \E id \in FreeIds : profiles' = [profiles EXCEPT ![id] = "default"]
    /\ profCall' = [profCall EXCEPT ![c] = NoCall]
    /\ UNCHANGED exceptProfiles

\* UpdateProfile: the unset statement when profile.IsDefault; Updates(profile)
\* writes no is_default = false (a zero value), so without IsDefault no
\* is_default changes.
UpdateProfile(c) ==
    /\ profCall[c].op = "none"
    /\ \E id \in 0..MaxProfiles, isDefault \in BOOLEAN :
         IF isDefault
         THEN /\ profiles' = UnsetDefaults(profiles, id)
              /\ profCall' = [profCall EXCEPT ![c] =
                                [NoCall EXCEPT !.op = "update_write", !.id = id]]
         ELSE UNCHANGED <<profiles, profCall>>
    /\ UNCHANGED exceptProfiles

\* UpdateProfile with IsDefault: Updates(profile) WHERE id = ?.
UpdateProfileWrite(c) ==
    /\ profCall[c].op = "update_write"
    /\ profiles' = SetDefault(profiles, profCall[c].id)
    /\ profCall' = [profCall EXCEPT ![c] = NoCall]
    /\ UNCHANGED exceptProfiles

\* SetAsDefault: the unset statement.
SetAsDefault(c) ==
    /\ profCall[c].op = "none"
    /\ \E id \in 0..MaxProfiles :
         /\ profiles' = UnsetDefaults(profiles, 0)
         /\ profCall' = [profCall EXCEPT ![c] =
                           [op |-> "set_write", id |-> id,
                            hadDefault |-> Defaults(profiles) # {}]]
    /\ UNCHANGED exceptProfiles

\* SetAsDefault: the set statement, and the return.
SetAsDefaultWrite(c) ==
    /\ profCall[c].op = "set_write"
    /\ profiles' = SetDefault(profiles, profCall[c].id)
    /\ profCall' = [profCall EXCEPT ![c] = NoCall]
    /\ UNCHANGED exceptProfiles

InitProfiles ==
    /\ PanelIdle
    /\ FurtherIdle
    /\ TrafficIdle
    /\ BuildIdle
    /\ TranslatorIdle
    /\ profiles \in {rows \in [ProfileIds -> {"absent", "plain", "default"}] :
                        Cardinality(Defaults(rows)) <= 1}
    /\ profCall = [c \in Callers |-> NoCall]

NextProfiles ==
    \/ \E c \in Callers : AddProfile(c)
    \/ \E c \in Callers : AddProfileCreate(c)
    \/ \E c \in Callers : UpdateProfile(c)
    \/ \E c \in Callers : UpdateProfileWrite(c)
    \/ \E c \in Callers : SetAsDefault(c)
    \/ \E c \in Callers : SetAsDefaultWrite(c)

SpecProfiles == InitProfiles /\ [][NextProfiles]_vars

\* C16: under every interleaving of the statements of AddProfile, UpdateProfile
\* and SetAsDefault calls of one user, the user never has two default
\* profiles, and a user who had a default when SetAsDefault was called has
\* exactly one when it returns, whatever id was passed.
C16_OneDefault ==
    [][/\ Cardinality(Defaults(profiles')) <= 1
       /\ \A c \in Callers :
             (profCall[c].op = "set_write" /\ profCall'[c].op = "none"
                /\ profCall[c].hadDefault)
               => Cardinality(Defaults(profiles')) = 1]_vars

-----------------------------------------------------------------------------
(* The Config Translator: ConvertXrayToSingBox (A->B) and                  *)
(* ConvertSingBoxToXray (B->A).                                            *)
(* A JSON object is a function from its keys; a key the object does not    *)
(* have is not in its domain. A config is one inbound (its protocol, its   *)
(* clients or users, its streamSettings or tls object) and the route.      *)
(* An entry of a rule's ip list is <<prefix, rest>>: <<"geoip", "cn">> is  *)
(* "geoip:cn", <<"", "1.1.1.1">> is "1.1.1.1". A Reality short_id of a     *)
(* sing-box config is [isArray, items]: the JSON array items, or the JSON  *)
(* string items[1].                                                        *)

\* Clients of an inbound, rules of a route, translations of one config.
MaxClients == 2

MaxRules == 2

MaxTranslations == 2

Has(m, k) == k \in DOMAIN m

\* The object o with key k set to v.
Put(o, k, v) == [x \in DOMAIN o \cup {k} |-> IF x = k THEN v ELSE o[x]]

\* The objects that have some of the keys ks, each with one of the values
\* offered for it.
RECURSIVE ObjectsOver(_, _)
ObjectsOver(offers, ks) ==
    IF ks = {} THEN {EmptyMap}
    ELSE LET k == CHOOSE x \in ks : TRUE
             rest == ObjectsOver(offers, ks \ {k})
         IN  rest \cup {Put(o, k, v) : o \in rest, v \in offers[k]}

Objects(offers) == ObjectsOver(offers, DOMAIN offers)

XrayClients == Objects([id |-> {"u1"}, email |-> {"", "a@x"}, flow |-> {"", "f"}])

SingBoxUsers == Objects([uuid |-> {"u1"}, name |-> {"", "a@x"}, email |-> {"b@x"},
                         flow |-> {"", "f"}])

ShortIdLists == {<<>>, <<"a1", "b2">>, <<"b2", "a1">>}

XrayRealitySettings ==
    Objects([dest |-> {"d.example:443"}, serverNames |-> {<<>>, <<"s1", "s2">>},
             shortIds |-> ShortIdLists, privateKey |-> {"k"}])

XrayStreams ==
    {[security |-> "reality", realitySettings |-> rs] : rs \in XrayRealitySettings}
      \cup {[security |-> "tls", tlsSettings |-> ts] :
              ts \in Objects([serverName |-> {"s1"}])}
      \cup {[network |-> "tcp"]}

SingBoxReality ==
    Objects([private_key |-> {"k"},
             short_id |-> {[isArray |-> TRUE, items |-> l] : l \in ShortIdLists}
                            \cup {[isArray |-> FALSE, items |-> <<"a1">>]}])

SingBoxTls ==
    UNION {{[enabled |-> TRUE, reality |-> r], 
            [enabled |-> TRUE, reality |-> r, server_name |-> "s1"]} :
              r \in SingBoxReality}
      \cup {[enabled |-> TRUE, server_name |-> "s1"]}

IpLists == {<<<<"geoip", "private">>>>, <<<<"", "1.1.1.1">>>>,
            <<<<"geoip", "cn">>, <<"", "1.1.1.1">>, <<"geoip", "private">>>>}

\* Rules of either naming: the ones of a sing-box route come to an Xray config
\* through ConvertSingBoxToXray, which copies the route.
RouteRules ==
    {r \in Objects([outboundTag |-> {"o1", "o2"}, ip |-> IpLists,
                    geoip |-> {<<"cn">>}]) : Has(r, "outboundTag")}

Routes == [geoip : BOOLEAN, rules : SeqsUpTo(RouteRules, MaxRules)]

NoRoute == [geoip |-> FALSE, rules |-> <<>>]

\* The configs a translation may be given: the sections are translated one
\* by one from nothing but themselves, and one section at a time is varied.
XrayConfigs ==
    {[core |-> "xray", protocol |-> pr, users |-> cl, sec |-> EmptyMap, route |-> NoRoute] :
        pr \in {"vless", "vmess"}, cl \in SeqsUpTo(XrayClients, MaxClients)}
      \cup {[core |-> "xray", protocol |-> "vless", users |-> <<>>, sec |-> st,
             route |-> NoRoute] : st \in XrayStreams}
      \cup {[core |-> "xray", protocol |-> "vless", users |-> <<>>, sec |-> EmptyMap,
             route |-> rt] : rt \in Routes}

SingBoxConfigs ==
    {[core |-> "sing-box", protocol |-> pr, users |-> us, sec |-> EmptyMap,
      route |-> NoRoute] :
        pr \in {"vless", "vmess"}, us \in SeqsUpTo(SingBoxUsers, MaxClients)}
      \cup {[core |-> "sing-box", protocol |-> "vless", users |-> <<>>, sec |-> tls,
             route |-> NoRoute] : tls \in SingBoxTls}

\* The same user with the email key kept beside name.
ClientToUserKeepEmail(protocol, c) ==
    [k \in (IF Has(c, "id") THEN {"uuid"} ELSE {})
             \cup (IF Has(c, "email") THEN {"name", "email"} ELSE {})
             \cup (IF Has(c, "flow") /\ c["flow"] # "" THEN {"flow"} ELSE {}) |->
        CASE k = "uuid" -> c["id"]
          [] k = "name" -> c["email"]
          [] k = "email" -> c["email"]
          [] k = "flow" -> c["flow"]]

\* convertXrayInboundToSingBox, case "vmess", "vless": the user of a client.
ClientToUser(protocol, c) ==
    [k \in (IF Has(c, "id") THEN {"uuid"} ELSE {})
             \cup (IF Has(c, "email") /\ c["email"] # "" /\ protocol = "vless"
                   THEN {"name"} ELSE {})
             \cup (IF Has(c, "flow") /\ c["flow"] # "" THEN {"flow"} ELSE {}) |->
        CASE k = "uuid" -> c["id"]
          [] k = "name" -> c["email"]
          [] k = "flow" -> c["flow"]]

\* convertSingBoxInboundToXray, case "vmess", "vless": the client of a user.
UserToClient(user) ==
    [k \in (IF Has(user, "uuid") THEN {"id"} ELSE {})
             \cup (IF (Has(user, "name") /\ user["name"] # "")
                        \/ (Has(user, "email") /\ user["email"] # "")
                   THEN {"email"} ELSE {})
             \cup (IF Has(user, "flow") THEN {"flow"} ELSE {}) |->
        CASE k = "id" -> user["uuid"]
          [] k = "email" -> IF Has(user, "name") /\ user["name"] # ""
                            THEN user["name"] ELSE user["email"]
          [] k = "flow" -> user["flow"]]

MapSeq(Op(_), q) == [i \in DOMAIN q |-> Op(q[i])]

\* The server name convertXrayInboundToSingBox takes from realitySettings:
\* dest, else the first of serverNames, else none (<<>>).
RealityServer(rs) ==
    IF Has(rs, "dest") THEN <<rs["dest"]>>
    ELSE IF Has(rs, "serverNames") /\ rs["serverNames"] # <<>>
    THEN <<rs["serverNames"][1]>>
    ELSE <<>>

\* convertXrayInboundToSingBox: streamSettings to the tls object.
StreamToTls(stream) ==
    IF Has(stream, "security") /\ stream["security"] = "tls" /\ Has(stream, "tlsSettings")
    THEN LET ts == stream["tlsSettings"] IN
         [k \in {"enabled"} \cup (IF Has(ts, "serverName") THEN {"server_name"} ELSE {}) |->
            IF k = "enabled" THEN TRUE ELSE ts["serverName"]]
    ELSE IF Has(stream, "security") /\ stream["security"] = "reality"
              /\ Has(stream, "realitySettings")
    THEN LET rs == stream["realitySettings"]
             server == RealityServer(rs)
             reality ==
               [k \in {"enabled"}
                        \cup (IF server # <<>> THEN {"handshake"} ELSE {})
                        \cup (IF Has(rs, "privateKey") THEN {"private_key"} ELSE {})
                        \cup (IF Has(rs, "shortIds") /\ rs["shortIds"] # <<>>
                              THEN {"short_id"} ELSE {}) |->
                  CASE k = "enabled" -> TRUE
                    [] k = "handshake" -> [server |-> server[1]]
                    [] k = "private_key" -> rs["privateKey"]
                    [] k = "short_id" -> [isArray |-> TRUE, items |-> rs["shortIds"]]]
         IN  [k \in {"enabled", "reality"}
                      \cup (IF server # <<>> THEN {"server_name"} ELSE {}) |->
                CASE k = "enabled" -> TRUE
                  [] k = "reality" -> reality
                  [] k = "server_name" -> server[1]]
    ELSE EmptyMap

\* The short ids after the first left out.
TlsToStreamFirstShortId(tls) ==
    IF tls = EmptyMap THEN EmptyMap
    ELSE IF Has(tls, "reality")
    THEN LET reality == tls["reality"] IN
         [security |-> "reality",
          realitySettings |->
            [k \in (IF Has(tls, "server_name") THEN {"dest", "serverNames"} ELSE {})
                     \cup (IF Has(reality, "short_id") /\ reality["short_id"].items # <<>>
                           THEN {"shortIds"} ELSE {}) |->
               CASE k = "dest" -> tls["server_name"]
                 [] k = "serverNames" -> <<tls["server_name"]>>
                 [] k = "shortIds" -> <<reality["short_id"].items[1]>>]]
    ELSE [security |-> "tls", tlsSettings |-> EmptyMap]

\* convertSingBoxInboundToXray: the tls object to streamSettings.
TlsToStream(tls) ==
    IF tls = EmptyMap THEN EmptyMap
    ELSE IF Has(tls, "reality")
    THEN LET reality == tls["reality"] IN
         [security |-> "reality",
          realitySettings |->
            [k \in (IF Has(tls, "server_name") THEN {"dest", "serverNames"} ELSE {})
                     \cup (IF Has(reality, "private_key") THEN {"privateKey"} ELSE {})
                     \cup (IF Has(reality, "short_id")
                                /\ (~reality["short_id"].isArray
                                      \/ reality["short_id"].items # <<>>)
                           THEN {"shortIds"} ELSE {}) |->
               CASE k = "dest" -> tls["server_name"]
                 [] k = "serverNames" -> <<tls["server_name"]>>
                 [] k = "privateKey" -> reality["private_key"]
                 [] k = "shortIds" -> reality["short_id"].items]]
    ELSE [security |-> "tls",
          tlsSettings |->
            [k \in (IF Has(tls, "server_name") THEN {"serverName"} ELSE {}) |->
               tls["server_name"]]]

\* The rule kept with its fields renamed, whether or not a geo-IP database is
\* configured.
ConvertRuleKeep(rule, hasGeoipConfig) ==
    [dropped |-> FALSE,
     rule |-> [k \in ((DOMAIN rule \ {"outboundTag"})
                        \cup (IF Has(rule, "outboundTag") THEN {"outbound"} ELSE {})) |->
                 IF k = "outbound" /\ Has(rule, "outboundTag")
                 THEN rule["outboundTag"] ELSE rule[k]]]

\* The body of the rules loop of ConvertXrayToSingBox: whether the rule is
\* left out, and the rule as it is emitted.
ConvertRule(rule, hasGeoipConfig) ==
    LET ip == IF Has(rule, "ip") THEN rule["ip"] ELSE <<>>
        geoipList == MapSeq(LAMBDA e : e[2], SelectSeq(ip, LAMBDA e : e[1] = "geoip"))
        regularIPs == SelectSeq(ip, LAMBDA e : e[1] # "geoip")
        toGeoip == Has(rule, "ip") /\ geoipList # <<>>
        keys == ((DOMAIN rule \ {"outboundTag", "ip"})
                   \cup (IF Has(rule, "outboundTag") THEN {"outbound"} ELSE {})
                   \cup (IF toGeoip THEN {"geoip"} ELSE {})
                   \cup (IF regularIPs # <<>> THEN {"ip"} ELSE {}))
        out == [k \in keys |->
                  CASE k = "outbound" /\ Has(rule, "outboundTag") -> rule["outboundTag"]
                    [] k = "geoip" /\ toGeoip -> geoipList
                    [] k = "ip" -> regularIPs
                    [] OTHER -> rule[k]]
    IN  IF toGeoip /\ ~hasGeoipConfig
        THEN [dropped |-> TRUE, rule |-> rule]
        ELSE IF ~toGeoip /\ Has(rule, "geoip") /\ rule["geoip"] # <<>> /\ ~hasGeoipConfig
        THEN [dropped |-> TRUE, rule |-> rule]
        ELSE [dropped |-> FALSE, rule |-> out]

RECURSIVE ConvertRules(_, _)
ConvertRules(rules, hasGeoipConfig) ==
    IF rules = <<>> THEN <<>>
    ELSE LET r == ConvertRule(Head(rules), hasGeoipConfig) IN
         (IF r.dropped THEN <<>> ELSE <<r.rule>>)
            \o ConvertRules(Tail(rules), hasGeoipConfig)

\* ConvertXrayToSingBox on a config.
ConvertXrayToSingBox(cfg) ==
    [core |-> "sing-box",
     protocol |-> cfg.protocol,
     users |-> MapSeq(LAMBDA c : ClientToUser(cfg.protocol, c), cfg.users),
     sec |-> StreamToTls(cfg.sec),
     route |-> [geoip |-> cfg.route.geoip,
                rules |-> ConvertRules(cfg.route.rules, cfg.route.geoip)]]

\* ConvertSingBoxToXray on a config: the route is copied.
ConvertSingBoxToXray(cfg) ==
    [core |-> "xray",
     protocol |-> cfg.protocol,
     users |-> MapSeq(UserToClient, cfg.users),
     sec |-> TlsToStream(cfg.sec),
     route |-> cfg.route]

Last(q) == q[Len(q)]

\* A->B of the config translated last.
TranslateAToB ==
    /\ translated # <<>>
    /\ Len(translated) <= MaxTranslations
    /\ Last(translated).core = "xray"
    /\ translated' = Append(translated, ConvertXrayToSingBox(Last(translated)))
    /\ UNCHANGED exceptTranslator

\* B->A of the config translated last.
TranslateBToA ==
    /\ translated # <<>>
    /\ Len(translated) <= MaxTranslations
    /\ Last(translated).core = "sing-box"
    /\ translated' = Append(translated, ConvertSingBoxToXray(Last(translated)))
    /\ UNCHANGED exceptTranslator

InitTranslator ==
    /\ PanelIdle
    /\ FurtherIdle
    /\ TrafficIdle
    /\ BuildIdle
    /\ ProfilesIdle
    /\ \E cfg \in XrayConfigs \cup SingBoxConfigs : translated = <<cfg>>

NextTranslator ==
    \/ TranslateAToB
    \/ TranslateBToA

SpecTranslator == InitTranslator /\ [][NextTranslator]_vars

\* The string under a key, "" without the key (the zero value read in Go).
Str(m, k) == IF Has(m, k) THEN m[k] ELSE ""

\* The list under a key, empty without the key.
List(m, k) == IF Has(m, k) THEN m[k] ELSE <<>>

\* C17: for every VLESS inbound, A->B maps each client {id, email, flow} to a
\* user {uuid = id, name = email, flow = flow} without an email key, and B->A
\* of the result gives a client with the original email (a key that is
\* absent reads as the empty string).
C17_VlessClientUser ==
    (Len(translated) >= 2 /\ translated[1].core = "xray"
       /\ translated[1].protocol = "vless") =>
        /\ Len(translated[2].users) = Len(translated[1].users)
        /\ \A i \in DOMAIN translated[1].users :
              LET c == translated[1].users[i]
                  user == translated[2].users[i]
              IN  /\ Str(user, "uuid") = Str(c, "id")
                  /\ Str(user, "name") = Str(c, "email")
                  /\ Str(user, "flow") = Str(c, "flow")
                  /\ ~Has(user, "email")
                  /\ Len(translated) >= 3 =>
                        Str(translated[3].users[i], "email") = Str(c, "email")

\* A VLESS client with an email and a flow went A->B->A.
C17_Witness ==
    /\ Len(translated) = 3
    /\ translated[1].core = "xray"
    /\ translated[1].protocol = "vless"
    /\ Len(translated[1].users) = 2
    /\ translated[1].users[1] = [id |-> "u1", email |-> "a@x", flow |-> "f"]
    /\ translated[2].users[1] = [uuid |-> "u1", name |-> "a@x", flow |-> "f"]
    /\ translated[3].users[1] = [id |-> "u1", email |-> "a@x", flow |-> "f"]

\* The Reality object of a sing-box tls object, and its short ids.
ShortIdOf(tls) ==
    IF Has(tls, "reality") /\ Has(tls["reality"], "short_id")
    THEN tls["reality"]["short_id"].items
    ELSE <<>>

IsXrayReality(cfg) ==
    /\ cfg.core = "xray"
    /\ Has(cfg.sec, "security")
    /\ cfg.sec["security"] = "reality"
    /\ Has(cfg.sec, "realitySettings")

IsSingBoxReality(cfg) == cfg.core = "sing-box" /\ Has(cfg.sec, "reality")

GeoipEntries(rule) ==
    MapSeq(LAMBDA e : e[2], SelectSeq(List(rule, "ip"), LAMBDA e : e[1] = "geoip"))

\* The rules of the translated route that come from the rule of an outbound.
RulesFor(cfg, outbound) ==
    {k \in DOMAIN cfg.route.rules : Str(cfg.route.rules[k], "outbound") = outbound}

\* The input is an Xray config whose rules name different outbounds, and it
\* has been translated A->B.
RouteTranslated ==
    /\ Len(translated) >= 2
    /\ translated[1].core = "xray"
    /\ \A i, j \in DOMAIN translated[1].route.rules :
          i # j => translated[1].route.rules[i]["outboundTag"]
                     # translated[1].route.rules[j]["outboundTag"]

\* C19 as stated: a rule with geoip-prefixed ip entries is absent from the
\* translated rules without a geo-IP database in the route and is otherwise
\* emitted with those entries in a geoip array; a rule without such entries
\* is never dropped.
C19_OnlyGeoipPrefixedDropped ==
    RouteTranslated =>
        \A i \in DOMAIN translated[1].route.rules :
           LET rule == translated[1].route.rules[i]
               out == RulesFor(translated[2], rule["outboundTag"])
           IN  IF GeoipEntries(rule) # <<>> /\ ~translated[1].route.geoip
               THEN out = {}
               ELSE /\ Cardinality(out) = 1
                    /\ GeoipEntries(rule) # <<>> =>
                          \A k \in out :
                             translated[2].route.rules[k]["geoip"] = GeoipEntries(rule)

\* C19 amended: without a geo-IP database in the route a rule is absent from
\* the translated rules exactly when it has geoip-prefixed ip entries or a
\* non-empty geoip field of its own; every other rule is emitted once, the
\* geoip-prefixed entries (prefix removed, in order) in its geoip array and
\* the other entries left in ip.
C19_GeoipRulesDropped ==
    RouteTranslated =>
        \A i \in DOMAIN translated[1].route.rules :
           LET rule == translated[1].route.rules[i]
               out == RulesFor(translated[2], rule["outboundTag"])
           IN  IF ~translated[1].route.geoip
                    /\ (GeoipEntries(rule) # <<>> \/ List(rule, "geoip") # <<>>)
               THEN out = {}
               ELSE /\ Cardinality(out) = 1
                    /\ \A k \in out :
                          LET o == translated[2].route.rules[k] IN
                            /\ GeoipEntries(rule) # <<>> =>
                                  /\ o["geoip"] = GeoipEntries(rule)
                                  /\ GeoipEntries(o) = <<>>
                            /\ GeoipEntries(rule) = <<>> =>
                                  List(o, "geoip") = List(rule, "geoip")
                            /\ List(o, "ip")
                                  = SelectSeq(List(rule, "ip"), LAMBDA e : e[1] # "geoip")

\* Without a geo-IP database, a rule with geoip-prefixed entries was left out
\* and the rule after it was kept.
C19_Witness ==
    /\ RouteTranslated
    /\ ~translated[1].route.geoip
    /\ Len(translated[1].route.rules) = 2
    /\ GeoipEntries(translated[1].route.rules[1]) = <<"cn", "private">>
    /\ Len(translated[2].route.rules) = 1
    /\ translated[2].route.rules[1] = [outbound |-> "o2", ip |-> <<<<"", "1.1.1.1">>>>]

-----------------------------------------------------------------------------
(* The API connection pool of the sing-box service                         *)
(*   web/service/singbox.go   GetOrCreateAPI, CloseAPIConnections,          *)
(*                            GetSingBoxTraffic                             *)
(*   singbox SingBoxAPI       Init, IsConnected, Close                      *)
(* A client is [isConnected, forCmd]: the flag that Init sets and Close     *)
(* clears, and the exec.Cmd of singboxProcess when Init was called, which   *)
(* the code does not store and the model keeps to tell the clients apart.   *)

\* SingBoxAPI.IsConnected
IsConnected(api) == api.isConnected

\* SingBoxAPI.Init pings GET /stats on the port: it can only be answered
\* while an OS child is alive, and need not be then.
PingOutcomes == IF AliveCmds # {} THEN BOOLEAN ELSE {FALSE}

\* GetOrCreateAPI(apiPort): the client and error returned, and the pool afterwards.
GetOrCreateAPI(apiPort, pingOK) ==
    LET pool == singboxAPIConnectionPool
        cached == apiPort \in DOMAIN pool
        kept == [k \in DOMAIN pool \ {apiPort} |-> pool[k]]
        api == [isConnected |-> TRUE, forCmd |-> singboxProcess.cmd]
    IN
    IF cached /\ IsConnected(pool[apiPort])
    THEN [err |-> "nil", api |-> pool[apiPort], pool |-> pool]
    ELSE IF ~pingOK
    THEN [err |-> "init", api |-> [isConnected |-> FALSE, forCmd |-> 0], pool |-> kept]
    ELSE [err |-> "nil", api |-> api,
          pool |-> [k \in DOMAIN pool \cup {apiPort} |->
                      IF k = apiPort THEN api ELSE pool[k]]]

\* GetSingBoxTraffic up to the client it queries; the traffic job calls it
\* without taking singboxLock.
GetSingBoxTraffic ==
    /\ IsSingBoxRunning
    /\ \E apiPort \in ApiPorts, pingOK \in PingOutcomes :
         LET r == GetOrCreateAPI(apiPort, pingOK) IN
         /\ singboxAPIConnectionPool' = r.pool
         /\ apiReturned' = [returned |-> (r.err = "nil"), err |-> r.err,
                            forCmd |-> r.api.forCmd,
                            processCmd |-> singboxProcess.cmd]
    /\ UNCHANGED <<panelAll, pureVars>>

\* The sing-box panel service with the traffic job querying the Control API.
NextPool ==
    \/ RestartSingBox("op")
    \/ RestartSingBox("async")
    \/ RsStart("op")
    \/ RsStart("async")
    \/ StopSingBox
    \/ StopStep
    \/ CmdStep
    \/ SetMultiNodeMode
    \/ GetSingBoxTraffic

SpecPool == InitRestart /\ [][NextPool]_vars

\* C20: a client that GetOrCreateAPI returns was created for the process
\* that is running when it is returned, never for an earlier process: the
\* pool is emptied whenever the process is stopped or replaced.
C20_NoClientOfEarlierProcess ==
    apiReturned.returned => apiReturned.forCmd = apiReturned.processCmd

-----------------------------------------------------------------------------
(* The multi-node fan-out                                                  *)
(*   web/service/singbox.go   restartSingBoxMultiMode                       *)
(* One goroutine per node that has inbounds: it builds and pushes the      *)
(* config of its node and, on failure, appends to errors under mu.         *)

MaxNodes == 3

NodeIds == 1..MaxNodes

\* What a goroutine's buildNodeConfig + ApplyConfigToNode can come to.
PushOutcomes == {"ok", "marshal_err", "apply_err"}

\* Errors that return before any goroutine is started: GetAllNodes,
\* GetAllInbounds, GetSingBoxConfigTemplate / json.Unmarshal of the template.
EarlyErrors == {"nodes_err", "inbounds_err", "template_err"}

\* The nodes the loop `for _, node := range nodes` starts a goroutine for.
Pushed(f) == f.nodes \cap f.nodeInbounds

\* restartSingBoxMultiMode up to wg.Wait(): the nodes are read, the enabled
\* inbounds are grouped by node, and a goroutine is started for each node
\* that has inbounds.
FanOutStart ==
    /\ fanOut.phase # "running"
    /\ \E nodes \in SUBSET NodeIds, early \in EarlyErrors \cup {"nil"} :
         \E nodeInbounds \in SUBSET nodes :
            IF early # "nil"
            THEN fanOut' = [NoFanOut EXCEPT !.phase = "returned", !.result = early]
            ELSE fanOut' = [NoFanOut EXCEPT
                              !.phase = "running",
                              !.nodes = nodes,
                              !.nodeInbounds = nodeInbounds,
                              !.go = [n \in nodes \cap nodeInbounds |-> "start"]]
    /\ UNCHANGED exceptFanOut

\* The goroutine of node n builds and pushes the config.
GoPush(n) ==
    /\ fanOut.phase = "running"
    /\ n \in DOMAIN fanOut.go
    /\ fanOut.go[n] = "start"
    /\ \E r \in PushOutcomes :
         fanOut' = [fanOut EXCEPT
                      !.go[n] = IF r = "ok" THEN "done" ELSE "lock",
                      !.failed = IF r = "ok" THEN @ ELSE @ \cup {n}]
    /\ UNCHANGED exceptFanOut

\* mu.Lock()
GoLock(n) ==
    /\ fanOut.phase = "running"
    /\ n \in DOMAIN fanOut.go
    /\ fanOut.go[n] = "lock"
    /\ fanOut.mu = 0
    /\ fanOut' = [fanOut EXCEPT !.mu = n, !.go[n] = "append"]
    /\ UNCHANGED exceptFanOut

\* errors = append(errors, ...); mu.Unlock(); wg.Done()
GoAppend(n) ==
    /\ fanOut.phase = "running"
    /\ n \in DOMAIN fanOut.go
    /\ fanOut.go[n] = "append"
    /\ fanOut' = [fanOut EXCEPT !.errors = Append(@, n), !.mu = 0, !.go[n] = "done"]
    /\ UNCHANGED exceptFanOut

\* What restartSingBoxMultiMode returns after wg.Wait().
FanOutResult(errors, nodes, pushed) ==
    IF Len(errors) > 0 /\ Len(errors) = Cardinality(nodes) THEN "all_failed" ELSE "nil"

\* wg.Wait() returns when every goroutine is done; the errors are counted.
FanOutReturn ==
    /\ fanOut.phase = "running"
    /\ \A n \in DOMAIN fanOut.go : fanOut.go[n] = "done"
    /\ fanOut' = [fanOut EXCEPT
                    !.phase = "returned",
                    !.result = FanOutResult(fanOut.errors, fanOut.nodes, Pushed(fanOut))]
    /\ UNCHANGED exceptFanOut

NextFanOut ==
    \/ FanOutStart
    \/ \E n \in NodeIds : GoPush(n)
    \/ \E n \in NodeIds : GoLock(n)
    \/ \E n \in NodeIds : GoAppend(n)
    \/ FanOutReturn

SpecFanOut == Init /\ [][NextFanOut]_vars

\* A call that got as far as the fan-out has returned.
FanOutDone == fanOut.phase = "returned" /\ fanOut.result \notin EarlyErrors

\* C21: a fan-out returns an error exactly when at least one node was pushed
\* a config and every push failed; with one successful push it returns nil.
C21_ErrorIffEveryPushFailed ==
    FanOutDone =>
        (fanOut.result # "nil"
            <=> (Pushed(fanOut) # {} /\ fanOut.failed = Pushed(fanOut)))

-----------------------------------------------------------------------------
(* The config file helpers of the live user calls                          *)
(*   xray api   UpdateConfigFileAfterUserRemoval,                           *)
(*              UpdateConfigFileAfterUserAddition                           *)
(* A Config is the sequence of its InboundConfigs, each [tag, settings].    *)
(* Settings are raw JSON: not parseable, or an object whose "clients" is    *)
(* absent, not an array, or an array of entries.  An entry is a JSON        *)
(* object with a string email, a JSON object without one, or no object.    *)

MaxLiveClients == 2

\* Helper calls on the Config of one process before that process is replaced.
MaxLiveCalls == 1

LiveTags == {"t1", "t2"}

Emails == {"a@x", "A@x", "b@x"}

ClientEntries ==
    {[form |-> "other", hasEmail |-> FALSE, email |-> ""],
     [form |-> "map", hasEmail |-> FALSE, email |-> ""]}
    \cup {[form |-> "map", hasEmail |-> TRUE, email |-> e] : e \in Emails}

LiveSettings ==
    {[parses |-> FALSE, clients |-> "absent", items |-> <<>>],
     [parses |-> TRUE, clients |-> "absent", items |-> <<>>],
     [parses |-> TRUE, clients |-> "not_array", items |-> <<>>]}
    \cup {[parses |-> TRUE, clients |-> "array", items |-> q] :
             q \in SeqsUpTo(ClientEntries, MaxLiveClients)}

\* Configs of a started process: inbound tags are unique.
LiveConfigs ==
    {c \in SeqsUpTo([tag : LiveTags, settings : LiveSettings], Cardinality(LiveTags)) :
        \A i, j \in DOMAIN c : c[i].tag = c[j].tag => i = j}

\* strings.EqualFold on the addresses of the model.
ToLower(e) == IF e = "A@x" THEN "a@x" ELSE e

EqualFold(a, b) == ToLower(a) = ToLower(b)

\* for i := range processConfig.InboundConfigs { if ...Tag == inboundTag
FirstWithTag(config, inboundTag) ==
    LET hits == {i \in DOMAIN config : config[i].tag = inboundTag} IN
    IF hits = {} THEN 0 ELSE CHOOSE i \in hits : \A j \in hits : i <= j

\* clientMap, ok := client.(map...); clientEmail, ok := clientMap["email"].(string)
StringEmail(client) == client.form = "map" /\ client.hasEmail

\* The loop of the removal: what it appends to newClients.
KeptClientsAll(clients, email) ==
    SelectSeq(clients, LAMBDA c : ~(StringEmail(c) /\ EqualFold(c.email, email)))

KeptClients(clients, email) ==
    SelectSeq(clients, LAMBDA c : StringEmail(c) /\ ~EqualFold(c.email, email))

\* UpdateConfigFileAfterUserRemoval: the error returned and the Config the
\* pointer refers to afterwards.
UpdateConfigFileAfterUserRemoval(processConfig, inboundTag, email, writeOK) ==
    LET i == FirstWithTag(processConfig, inboundTag)
        settings == processConfig[i].settings
        found == \E k \in DOMAIN settings.items :
                    /\ StringEmail(settings.items[k])
                    /\ EqualFold(settings.items[k].email, email)
    IN
    IF i = 0 THEN [err |-> "nil", config |-> processConfig]
    ELSE IF ~settings.parses THEN [err |-> "parse", config |-> processConfig]
    ELSE IF settings.clients = "not_array"
    THEN [err |-> "not_array", config |-> processConfig]
    ELSE IF settings.clients = "absent" \/ ~found
    THEN [err |-> "nil", config |-> processConfig]
    ELSE [err |-> IF writeOK THEN "nil" ELSE "write",
          config |-> [processConfig EXCEPT
                        ![i].settings.items = KeptClients(settings.items, email)]]

\* UpdateConfigFileAfterUserAddition, likewise.
UpdateConfigFileAfterUserAddition(processConfig, inboundTag, user, writeOK) ==
    LET i == FirstWithTag(processConfig, inboundTag)
        settings == processConfig[i].settings
        clients == IF settings.clients = "array" THEN settings.items ELSE <<>>
        exists == \E k \in DOMAIN clients :
                     /\ StringEmail(clients[k])
                     /\ EqualFold(clients[k].email, user.email)
    IN
    IF ~StringEmail(user) THEN [err |-> "no_email", config |-> processConfig]
    ELSE IF i = 0 THEN [err |-> "nil", config |-> processConfig]
    ELSE IF ~settings.parses THEN [err |-> "parse", config |-> processConfig]
    ELSE IF exists THEN [err |-> "nil", config |-> processConfig]
    ELSE [err |-> IF writeOK THEN "nil" ELSE "write",
          config |-> [processConfig EXCEPT
                        ![i].settings.clients = "array",
                        ![i].settings.items = Append(clients, user)]]

\* The panel removes a user from the running core and syncs the config file:
\* the helper is handed process.GetConfig(), the pointer the handle holds.
LiveUserRemoval ==
    /\ Len(liveConfig.config) > 0
    /\ liveConfig.calls < MaxLiveCalls
    /\ \E inboundTag \in LiveTags, email \in Emails, writeOK \in BOOLEAN :
         LET r == UpdateConfigFileAfterUserRemoval(liveConfig.config, inboundTag, email,
                                                   writeOK)
         IN liveConfig' = [liveConfig EXCEPT
                             !.config = r.config,
                             !.calls = @ + 1,
                             !.call = [op |-> "removal", tag |-> inboundTag,
                                       email |-> email, err |-> r.err,
                                       before |-> liveConfig.config,
                                       after |-> r.config]]
    /\ UNCHANGED exceptLive

\* The panel adds a user to the running core and syncs the config file.
LiveUserAddition ==
    /\ Len(liveConfig.config) > 0
    /\ liveConfig.calls < MaxLiveCalls
    /\ \E inboundTag \in LiveTags, writeOK \in BOOLEAN,
          user \in {c \in ClientEntries : c.form = "map"} :
         /\ \A i \in DOMAIN liveConfig.config :
               Len(liveConfig.config[i].settings.items) < MaxLiveClients
         /\ LET r == UpdateConfigFileAfterUserAddition(liveConfig.config, inboundTag, user,
                                                       writeOK)
            IN liveConfig' = [liveConfig EXCEPT
                                !.config = r.config,
                                !.calls = @ + 1,
                                !.call = [op |-> "addition", tag |-> inboundTag,
                                          email |-> user.email, err |-> r.err,
                                          before |-> liveConfig.config,
                                          after |-> r.config]]
    /\ UNCHANGED exceptLive

\* A restart: NewProcess is given a freshly built Config, here one with the
\* users that the live calls have left.
LiveRestart ==
    /\ liveConfig.call.op # "none"
    /\ liveConfig' = [NoLive EXCEPT !.config = liveConfig.config,
                                    !.atStart = liveConfig.config]
    /\ UNCHANGED exceptLive

\* Everything but the further computations at rest.
BaseIdle ==
    /\ PanelIdle
    /\ TrafficIdle
    /\ BuildIdle
    /\ ProfilesIdle
    /\ TranslatorIdle

InitLive ==
    /\ BaseIdle
    /\ fanOut = NoFanOut
    /\ sections = NoSections
    /\ modeStore = NoMode
    /\ poolRun = NoPoolRun
    /\ manager = NoManager
    /\ \E c \in LiveConfigs :
         /\ Len(c) > 0
         /\ liveConfig = [NoLive EXCEPT !.config = c, !.atStart = c]

NextLive ==
    \/ LiveUserRemoval
    \/ LiveUserAddition
    \/ LiveRestart

SpecLive == InitLive /\ [][NextLive]_vars

\* C22: the Config a Process handle holds is the one it was started with;
\* the user add/remove helpers leave its inbound settings as they were.
C22_ProcessConfigImmutable == liveConfig.config = liveConfig.atStart

\* The inbound a removal call is about, before and after the call.
RemovalCall == liveConfig.call.op = "removal"

RemovalIndex == FirstWithTag(liveConfig.call.before, liveConfig.call.tag)

\* C29: a removal takes out of the inbound with the tag exactly the clients
\* whose email equals the given one, case-insensitively; every other entry
\* of that inbound, with or without a string email, and every other inbound
\* stay as they were.
C29_RemovesExactlyTheEmail ==
    RemovalCall =>
        LET before == liveConfig.call.before
            after == liveConfig.call.after
            i == RemovalIndex
        IN
        /\ Len(after) = Len(before)
        /\ \A j \in DOMAIN before : j # i => after[j] = before[j]
        /\ (i # 0 /\ before[i].settings.clients = "array") =>
              after[i].settings.items =
                 KeptClientsAll(before[i].settings.items, liveConfig.call.email)

-----------------------------------------------------------------------------
(* The Config Translator, section by section                               *)
(*   ConvertXrayToSingBox   log, outbounds, route, inbound transport        *)
(*   ConvertSingBoxToXray   log, outbounds, route, inbound streamSettings   *)
(*   Inbound.GenSingBoxInboundConfig   transport of a stored inbound        *)
(* A section is a json RawMessage: [raw, v] with raw "empty" (length 0),    *)
(* "bad" (bytes that json.Unmarshal rejects) or "json" (v is the value).    *)

MaxOutbounds == 2

Without(m, k) == [x \in DOMAIN m \ {k} |-> m[x]]

WithoutAll(m, ks) == [x \in DOMAIN m \ ks |-> m[x]]

EmptySection == [raw |-> "empty", v |-> <<>>]

BadSection == [raw |-> "bad", v |-> <<>>]

Json(v) == [raw |-> "json", v |-> v]

XrayLogs == Objects([loglevel |-> {"info"}, error |-> {"", "e.log"}, access |-> {"a.log"}])

SingBoxLogs == Objects([level |-> {"info"}, output |-> {"o.log"}, error |-> {"e.log"}])

XrayOutboundSettings ==
    Objects([domainStrategy |-> {"UseIP"}, redirect |-> {"r:1"}, servers |-> {"s"}])

XrayOutbounds ==
    Objects([protocol |-> {"freedom", "blackhole", "vless", "tunnel"},
             settings |-> XrayOutboundSettings])

SingBoxOutbounds ==
    Objects([type |-> {"direct", "vless"}, domain_strategy |-> {"UseIP"},
             settings |-> Objects([servers |-> {"s"}])])

\* stream["network"] of an inbound, where streamSettings has the key.
Networks == {"tcp", "ws", "grpc", "quic", "http", "httpupgrade", "kcp", "xhttp"}

XrayStreamSettings == {EmptySection, BadSection}
                         \cup {Json(st) : st \in Objects([network |-> Networks])}

SingBoxTransports == {EmptyMap} \cup {[type |-> n] : n \in {"ws", "grpc", "kcp"}}

SectionRoutes ==
    {NoRoute,
     [geoip |-> FALSE, rules |-> <<[outboundTag |-> "o1", ip |-> <<<<"", "1.1.1.1">>>>]>>]}

NoSectionConfig(core) ==
    [core |-> core, log |-> EmptySection, outbounds |-> EmptySection,
     route |-> EmptySection, streamSettings |-> EmptySection, transport |-> EmptyMap]

\* The configs a translation may be given, one section varied at a time.
XraySectionConfigs ==
    {[NoSectionConfig("xray") EXCEPT !.log = l] :
        l \in {BadSection} \cup {Json(x) : x \in XrayLogs}}
      \cup {[NoSectionConfig("xray") EXCEPT !.outbounds = o] :
              o \in {BadSection}
                      \cup {Json(q) : q \in SeqsUpTo(XrayOutbounds, MaxOutbounds)}}
      \cup {[NoSectionConfig("xray") EXCEPT !.route = r] :
              r \in {BadSection} \cup {Json(x) : x \in SectionRoutes}}
      \cup {[NoSectionConfig("xray") EXCEPT !.streamSettings = st] :
              st \in XrayStreamSettings}

SingBoxSectionConfigs ==
    {[NoSectionConfig("sing-box") EXCEPT !.log = l] :
        l \in {BadSection} \cup {Json(x) : x \in SingBoxLogs}}
      \cup {[NoSectionConfig("sing-box") EXCEPT !.outbounds = o] :
              o \in {BadSection}
                      \cup {Json(q) : q \in SeqsUpTo(SingBoxOutbounds, MaxOutbounds)}}
      \cup {[NoSectionConfig("sing-box") EXCEPT !.route = r] :
              r \in {BadSection} \cup {Json(x) : x \in SectionRoutes}}
      \cup {[NoSectionConfig("sing-box") EXCEPT !.transport = t] :
              t \in SingBoxTransports}

\* ConvertXrayToSingBox: the log section.
LogAToB(log) ==
    CASE log.raw = "empty" -> Json([level |-> "warn", timestamp |-> TRUE])
      [] log.raw = "bad" -> EmptySection
      [] OTHER ->
           LET xrayLog == log.v
               withLevel == [level |-> IF Has(xrayLog, "loglevel")
                                       THEN xrayLog["loglevel"] ELSE "warn",
                             timestamp |-> TRUE]
           IN Json(IF Str(xrayLog, "error") # ""
                   THEN Put(withLevel, "output", xrayLog["error"])
                   ELSE IF Str(xrayLog, "access") # ""
                   THEN Put(withLevel, "output", xrayLog["access"])
                   ELSE withLevel)

\* ConvertSingBoxToXray: the log section.
LogBToA(log) ==
    CASE log.raw = "empty" -> EmptySection
      [] log.raw = "bad" -> EmptySection
      [] OTHER ->
           LET sbLog == log.v
               l1 == IF Has(sbLog, "level") THEN [loglevel |-> sbLog["level"]] ELSE EmptyMap
               l2 == IF Has(sbLog, "output") THEN Put(l1, "access", sbLog["output"]) ELSE l1
           IN Json(IF Has(sbLog, "error") THEN Put(l2, "error", sbLog["error"]) ELSE l2)

\* The outbounds loop of ConvertXrayToSingBox drops these.
SkippedOutbound(o) == Has(o, "protocol") /\ o["protocol"] \in {"tun", "tunnel"}

\* The outbounds loop body of ConvertXrayToSingBox for an outbound it keeps.
ConvertOutbound(o) ==
    LET protocol == Str(o, "protocol")
        o1 == IF Has(o, "protocol") /\ protocol = "freedom"
              THEN LET d == Put(o, "protocol", "direct") IN
                   IF Has(o, "settings")
                   THEN Put(d, "settings",
                            WithoutAll(o["settings"],
                                       {"domainStrategy", "redirect", "noises"}))
                   ELSE d
              ELSE IF Has(o, "protocol") /\ protocol = "blackhole"
              THEN Put(Put(o, "protocol", "block"), "settings", EmptyMap)
              ELSE o
        o2 == IF Has(o1, "protocol")
              THEN Without(Put(o1, "type", o1["protocol"]), "protocol")
              ELSE o1
    IN IF Has(o2, "settings") /\ Has(o2["settings"], "domainStrategy")
       THEN Put(Put(o2, "domain_strategy", o2["settings"]["domainStrategy"]),
                "settings", Without(o2["settings"], "domainStrategy"))
       ELSE o2

\* ConvertXrayToSingBox: the outbounds section.
OutboundsAToB(outbounds) ==
    CASE outbounds.raw = "empty" -> EmptySection
      [] outbounds.raw = "bad" -> EmptySection
      [] OTHER ->
           Json(MapSeq(ConvertOutbound,
                       SelectSeq(outbounds.v, LAMBDA o : ~SkippedOutbound(o))))

\* The outbounds loop body of ConvertSingBoxToXray.
RestoreOutbound(o) ==
    LET o1 == IF Has(o, "domain_strategy")
              THEN Without(Put(o, "settings",
                               Put(IF Has(o, "settings") THEN o["settings"] ELSE EmptyMap,
                                   "domainStrategy", o["domain_strategy"])),
                           "domain_strategy")
              ELSE o
    IN IF Has(o1, "type")
       THEN Without(Put(o1, "protocol", o1["type"]), "type")
       ELSE o1

\* ConvertSingBoxToXray: the outbounds section.
OutboundsBToA(outbounds) ==
    CASE outbounds.raw = "empty" -> EmptySection
      [] outbounds.raw = "bad" -> outbounds
      [] OTHER -> Json(MapSeq(RestoreOutbound, outbounds.v))

\* ConvertXrayToSingBox: the route section.
RouteAToB(route) ==
    CASE route.raw = "empty" -> EmptySection
      [] route.raw = "bad" -> route
      [] OTHER -> Json([geoip |-> route.v.geoip,
                        rules |-> ConvertRules(route.v.rules, route.v.geoip)])

\* ConvertSingBoxToXray: the route section is copied.
RouteBToA(route) == route

\* convertXrayInboundToSingBox: the transport made of streamSettings; an
\* empty map is an inbound without transport.
TransportOfStream(streamSettings) ==
    IF streamSettings.raw = "json" /\ Has(streamSettings.v, "network")
         /\ streamSettings.v["network"] # "tcp"
    THEN [type |-> streamSettings.v["network"]]
    ELSE EmptyMap

validTransportTypes == {"ws", "grpc", "quic", "http", "httpupgrade"}

\* GenSingBoxInboundConfig: the transport made of the row's StreamSettings.
GenTransport(streamSettings) ==
    LET network == Str(streamSettings.v, "network")
        transport == IF streamSettings.raw = "json" /\ Has(streamSettings.v, "network")
                          /\ network # "" /\ network # "tcp"
                     THEN [type |-> network] ELSE EmptyMap
    IN IF Has(transport, "type") /\ transport["type"] # ""
          /\ transport["type"] \in validTransportTypes
       THEN transport ELSE EmptyMap

\* convertSingBoxInboundToXray: streamSettings made of the transport.
StreamOfTransport(transport) ==
    Json(IF Has(transport, "type") THEN [network |-> transport["type"]] ELSE EmptyMap)

SectionsAToB(cfg) ==
    [core |-> "sing-box",
     log |-> LogAToB(cfg.log),
     outbounds |-> OutboundsAToB(cfg.outbounds),
     route |-> RouteAToB(cfg.route),
     streamSettings |-> EmptySection,
     transport |-> TransportOfStream(cfg.streamSettings)]

SectionsBToA(cfg) ==
    [core |-> "xray",
     log |-> LogBToA(cfg.log),
     outbounds |-> OutboundsBToA(cfg.outbounds),
     route |-> RouteBToA(cfg.route),
     streamSettings |-> StreamOfTransport(cfg.transport),
     transport |-> EmptyMap]

\* A->B of the config translated last.
ConvertSectionsAToB ==
    /\ sections.configs # <<>>
    /\ Len(sections.configs) <= MaxTranslations
    /\ Last(sections.configs).core = "xray"
    /\ sections' = [sections EXCEPT
                      !.configs = Append(@, SectionsAToB(Last(sections.configs)))]
    /\ UNCHANGED exceptSections

\* B->A of the config translated last.
ConvertSectionsBToA ==
    /\ sections.configs # <<>>
    /\ Len(sections.configs) <= MaxTranslations
    /\ Last(sections.configs).core = "sing-box"
    /\ sections' = [sections EXCEPT
                      !.configs = Append(@, SectionsBToA(Last(sections.configs)))]
    /\ UNCHANGED exceptSections

\* The Config Builder generates the inbound of a row that has the
\* streamSettings of the first config.
GenInboundTransport ==
    /\ sections.configs # <<>>
    /\ sections.configs[1].core = "xray"
    /\ ~sections.gen.done
    /\ sections' = [sections EXCEPT
                      !.gen = [done |-> TRUE,
                               transport |-> GenTransport(sections.configs[1].streamSettings)]]
    /\ UNCHANGED exceptSections

InitSections ==
    /\ BaseIdle
    /\ fanOut = NoFanOut
    /\ liveConfig = NoLive
    /\ modeStore = NoMode
    /\ poolRun = NoPoolRun
    /\ manager = NoManager
    /\ \E cfg \in XraySectionConfigs \cup SingBoxSectionConfigs :
         sections = [NoSections EXCEPT !.configs = <<cfg>>]

NextSections ==
    \/ ConvertSectionsAToB
    \/ ConvertSectionsBToA
    \/ GenInboundTransport

SpecSections == InitSections /\ [][NextSections]_vars

\* Steps of the history: config i was translated into config i + 1.
AToBSteps ==
    {i \in 1..(Len(sections.configs) - 1) : sections.configs[i].core = "xray"}

BToASteps ==
    {i \in 1..(Len(sections.configs) - 1) : sections.configs[i].core = "sing-box"}

\* The outbounds of config i, none unless the section is parseable.
OutboundsOf(i) ==
    IF sections.configs[i].outbounds.raw = "json"
    THEN sections.configs[i].outbounds.v ELSE <<>>

\* The Xray outbounds of config i that the translation emits.
EmittedOf(i) == SelectSeq(OutboundsOf(i), LAMBDA o : ~SkippedOutbound(o))

HasDomainStrategy(o) == Has(o, "settings") /\ Has(o["settings"], "domainStrategy")

\* C23: an Xray outbound with settings.domainStrategy = s is emitted with a
\* sibling domain_strategy = s and without settings.domainStrategy, and the
\* B->A translation of the output restores settings.domainStrategy = s.
C23_DomainStrategyMoved ==
    \A i \in AToBSteps :
       /\ Len(OutboundsOf(i + 1)) = Len(EmittedOf(i))
       /\ \A k \in DOMAIN EmittedOf(i) :
             LET o == EmittedOf(i)[k]
                 out == OutboundsOf(i + 1)[k]
             IN HasDomainStrategy(o) =>
                  /\ Str(out, "domain_strategy") = o["settings"]["domainStrategy"]
                  /\ ~HasDomainStrategy(out)
                  /\ (i + 2 <= Len(sections.configs)) =>
                        /\ HasDomainStrategy(OutboundsOf(i + 2)[k])
                        /\ OutboundsOf(i + 2)[k]["settings"]["domainStrategy"]
                             = o["settings"]["domainStrategy"]

\* The transport is absent or of a type sing-box knows.
TransportAllowed(transport) ==
    Has(transport, "type") => transport["type"] \in validTransportTypes

\* C24: an inbound produced for sing-box, by the translator or by the Config
\* Builder, has no transport or one of type ws, grpc, quic, http, httpupgrade.
C24_TransportWhitelisted ==
    /\ \A i \in AToBSteps : TransportAllowed(sections.configs[i + 1].transport)
    /\ sections.gen.done => TransportAllowed(sections.gen.transport)

SectionNames == {"log", "outbounds", "route"}

\* C25: a section that is not parseable JSON appears unchanged in the output
\* of either translation.
C25_BadSectionPassedThrough ==
    \A i \in AToBSteps \cup BToASteps :
       \A s \in SectionNames :
          sections.configs[i][s].raw = "bad" =>
             sections.configs[i + 1][s] = sections.configs[i][s]

-----------------------------------------------------------------------------
(* Saving the multiNodeMode setting                                        *)
(*   web/service/setting.go   getSetting, saveSetting,                      *)
(*                            cleanupDuplicateInbounds                      *)
(* The settings cache is not among the sources: it is modelled from its    *)
(* use, a read-through cache (GetOrSet) whose entry InvalidateSetting      *)
(* removes.                                                                 *)

MaxRows == 3

RowIds == 1..MaxRows

ListenValues == {"", "0.0.0.0", "10.0.0.1"}

PortValues == {443, 8443}

NoRow == [present |-> FALSE, listen |-> "", port |-> 0]

RowValues == {NoRow} \cup [present : {TRUE}, listen : ListenValues, port : PortValues]

BoolStrings == {"true", "false"}

\* The grouping key of cleanupDuplicateInbounds: the wildcard addresses count
\* as no address.
PortKey(row) ==
    <<IF row.listen \in {"", "0.0.0.0", "::", "::0"} THEN "" ELSE row.listen, row.port>>

PresentIds(rows) == {i \in DOMAIN rows : rows[i].present}

NoDuplicates(rows) ==
    \A i, j \in PresentIds(rows) : PortKey(rows[i]) = PortKey(rows[j]) => i = j

\* strconv.ParseBool of a stored value; a missing row reads as false.
ParseBool(v) == v = "true"

\* getSetting: the value found ("absent": record not found) and the cache afterwards.
getSetting(db, cache) ==
    IF cache # "miss" THEN [value |-> cache, cache |-> cache]
    ELSE [value |-> db, cache |-> IF db = "absent" THEN "miss" ELSE db]

\* cleanupDuplicateInbounds: of each group the lowest id is kept; failed are
\* the ids whose DelInbound returns an error.
cleanupDuplicateInbounds(rows, failed) ==
    LET toDelete == {i \in PresentIds(rows) :
                       \E j \in PresentIds(rows) :
                          j < i /\ PortKey(rows[j]) = PortKey(rows[i])}
    IN [i \in DOMAIN rows |-> IF i \in toDelete \ failed THEN NoRow ELSE rows[i]]

\* saveSetting("multiNodeMode", value): the store afterwards.
saveSetting(ms, value, saveOK, failed) ==
    LET first == getSetting(ms.db, ms.cache)
        db1 == IF saveOK THEN value ELSE ms.db
        \* cache.InvalidateSetting(key), then oldSetting, oldErr := s.getSetting(key)
        oldSetting == getSetting(db1, "miss")
        oldValue == oldSetting.value # "absent" /\ ParseBool(oldSetting.value)
        newValue == ParseBool(value)
        clean == oldValue /\ ~newValue
    IN
    IF ~saveOK
    THEN [ms EXCEPT !.cache = first.cache,
                    !.save = [done |-> FALSE, old |-> ms.db, new |-> value,
                              cleaned |-> FALSE]]
    ELSE [db |-> db1,
          cache |-> oldSetting.cache,
          rows |-> IF clean THEN cleanupDuplicateInbounds(ms.rows, failed) ELSE ms.rows,
          save |-> [done |-> TRUE, old |-> ms.db, new |-> value, cleaned |-> clean]]

\* The panel saves the multiNodeMode setting.
SaveMultiNodeMode ==
    /\ \E value \in BoolStrings, saveOK \in BOOLEAN,
          failed \in SUBSET PresentIds(modeStore.rows) :
         modeStore' = saveSetting(modeStore, value, saveOK, failed)
    /\ UNCHANGED exceptMode

\* GetMultiNodeMode: a read through the cache.
ReadMultiNodeMode ==
    /\ modeStore' = [modeStore EXCEPT !.cache = getSetting(modeStore.db, @).cache]
    /\ UNCHANGED exceptMode

\* In single-node mode the inbounds stored have distinct ports.
InitMode ==
    /\ BaseIdle
    /\ fanOut = NoFanOut
    /\ liveConfig = NoLive
    /\ sections = NoSections
    /\ poolRun = NoPoolRun
    /\ manager = NoManager
    /\ \E db \in BoolStrings \cup {"absent"}, rows \in [RowIds -> RowValues] :
         /\ ~ParseBool(db) => NoDuplicates(rows)
         /\ modeStore = [NoMode EXCEPT !.db = db, !.rows = rows]

NextMode ==
    \/ SaveMultiNodeMode
    \/ ReadMultiNodeMode

SpecMode == InitMode /\ [][NextMode]_vars

\* C26: after a save that has changed multiNodeMode from true to false, the
\* clean-up having run as part of it, no two stored inbounds share listen
\* address and port.
C26_CleanupOnLeavingMultiNode ==
    (modeStore.save.done /\ modeStore.save.old = "true" /\ modeStore.save.new = "false")
        => NoDuplicates(modeStore.rows)

-----------------------------------------------------------------------------
(* SwitchCoreWithConversion called with a type that is no core type.       *)

\* A step of a switch that was called with such a type.
SwInvalidStep ==
    /\ pc["op"] # "idle"
    /\ loc["op"].op = "switch"
    /\ loc["op"].new \notin CoreTypes
    /\ pc'["op"] # pc["op"]

\* C27: a switch to a type that is neither xray nor sing-box stops no core
\* and changes no setting on its way, and what it returns is an error.
C27_InvalidTypeStopsNothing ==
    [][SwInvalidStep =>
          /\ xrayRunning' = xrayRunning
          /\ stopSt' = stopSt
          /\ settingVars' = settingVars
          /\ pc'["op"] = "idle" => ret'.res = "err"]_vars

-----------------------------------------------------------------------------
(* GetOrCreateAPI and CloseAPIConnections step by step. The pool is a      *)
(* sync.Map, whose Load, Store and Delete are atomic one by one; the       *)
(* goroutines interleave between them. One port is in use.                 *)

\* SingBoxAPI.IsConnected of client c.
ClientConnected(c) == c # 0 /\ poolRun.conn[c] = "up"

\* The clients that no SingBoxAPI has been made of yet.
FreshClients == {c \in ApiClientIds : poolRun.conn[c] = "none"}

PoolAt(t, where) == poolRun.pc[t] = where

PoolGoto(pr, t, where) == [pr EXCEPT !.pc[t] = where]

\* The function returns: its deferred Unlock runs if it holds the lock.
PoolReturn(pr, t) ==
    [pr EXCEPT !.pc[t] = "idle", !.api[t] = 0,
               !.lock = IF pr.lock = t THEN "free" ELSE pr.lock]

\* A call begins; every call that is in flight can still get a client of its own.
GetBegin(t) ==
    /\ PoolAt(t, "idle")
    /\ Cardinality({u \in Getters : ~PoolAt(u, "idle")}) < Cardinality(FreshClients)
    /\ poolRun' = PoolGoto(poolRun, t, "load")
    /\ UNCHANGED exceptPoolRun

\* if conn, ok := singboxAPIConnectionPool.Load(apiPort); ok { api := conn... }
GetLoad(t) ==
    /\ PoolAt(t, "load")
    /\ poolRun' = IF poolRun.pool # 0
                  THEN [PoolGoto(poolRun, t, "check") EXCEPT !.api[t] = poolRun.pool]
                  ELSE PoolGoto(poolRun, t, "lock")
    /\ UNCHANGED exceptPoolRun

\* if api.IsConnected() { return api, ... }
GetCheck(t) ==
    /\ PoolAt(t, "check")
    /\ poolRun' = IF ClientConnected(poolRun.api[t])
                  THEN PoolReturn(poolRun, t)
                  ELSE PoolGoto(poolRun, t, "delete")
    /\ UNCHANGED exceptPoolRun

\* singboxAPIConnectionPool.Delete(apiPort): whatever the port holds by now.
GetDelete(t) ==
    /\ PoolAt(t, "delete")
    /\ poolRun' = [PoolGoto(poolRun, t, "lock") EXCEPT !.pool = 0, !.api[t] = 0]
    /\ UNCHANGED exceptPoolRun

\* singboxAPIPoolLock.Lock()
GetLock(t) ==
    /\ PoolAt(t, "lock")
    /\ poolRun.lock = "free"
    /\ poolRun' = [PoolGoto(poolRun, t, "recheck") EXCEPT !.lock = t]
    /\ UNCHANGED exceptPoolRun

\* The double check: Load and IsConnected again, with the lock held.
GetRecheck(t) ==
    /\ PoolAt(t, "recheck")
    /\ poolRun' = IF ClientConnected(poolRun.pool)
                  THEN PoolReturn(poolRun, t)
                  ELSE PoolGoto(poolRun, t, "init")
    /\ UNCHANGED exceptPoolRun

\* api := &singbox.SingBoxAPI{}; api.Init(apiPort): connected unless the ping fails.
GetInit(t) ==
    /\ PoolAt(t, "init")
    /\ \E c \in FreshClients, pingOK \in BOOLEAN :
         poolRun' = IF pingOK
                    THEN [PoolGoto(poolRun, t, "store") EXCEPT
                             !.conn[c] = "up", !.api[t] = c]
                    ELSE [PoolReturn(poolRun, t) EXCEPT !.conn[c] = "down"]
    /\ UNCHANGED exceptPoolRun

\* singboxAPIConnectionPool.Store(apiPort, api); return api.
GetStore(t) ==
    /\ PoolAt(t, "store")
    /\ poolRun' = [PoolReturn(poolRun, t) EXCEPT !.pool = poolRun.api[t]]
    /\ UNCHANGED exceptPoolRun

\* CloseAPIConnections: Range reaches the port's entry, if there is one.
CloseRange ==
    /\ PoolAt("closer", "idle")
    /\ poolRun.pool # 0
    /\ poolRun' = [PoolGoto(poolRun, "closer", "close") EXCEPT
                      !.api["closer"] = poolRun.pool]
    /\ UNCHANGED exceptPoolRun

\* api.Close()
CloseClient ==
    /\ PoolAt("closer", "close")
    /\ poolRun' = [PoolGoto(poolRun, "closer", "delete") EXCEPT
                      !.conn[poolRun.api["closer"]] = "down"]
    /\ UNCHANGED exceptPoolRun

\* singboxAPIConnectionPool.Delete(key)
CloseDelete ==
    /\ PoolAt("closer", "delete")
    /\ poolRun' = [PoolReturn(poolRun, "closer") EXCEPT !.pool = 0]
    /\ UNCHANGED exceptPoolRun

GetStep(t) ==
    \/ GetBegin(t)
    \/ GetLoad(t)
    \/ GetCheck(t)
    \/ GetDelete(t)
    \/ GetLock(t)
    \/ GetRecheck(t)
    \/ GetInit(t)
    \/ GetStore(t)

NextPoolRun ==
    \/ \E t \in Getters : GetStep(t)
    \/ CloseRange
    \/ CloseClient
    \/ CloseDelete

SpecPoolRun == Init /\ [][NextPoolRun]_vars

\* C28: whatever GetOrCreateAPI calls and CloseAPIConnections interleave, no
\* step of GetOrCreateAPI removes or replaces a pool entry that holds a
\* connected client.
C28_GetNeverDropsConnectedEntry ==
    [][(ClientConnected(poolRun.pool) /\ \E t \in Getters : GetStep(t))
          => poolRun'.pool = poolRun.pool]_vars

-----------------------------------------------------------------------------
(* The node's Manager of the sing-box process: a handle that is nil, or    *)
(* a Process that runs or does not (its Start failed, or its child has     *)
(* exited), and the config the manager keeps.                              *)

MaxNodeConfigs == 2
NodeConfigs == 1..MaxNodeConfigs

\* m.process != nil && m.process.IsRunning()
HandleRunning(h) == h.st = "running"

\* singbox.NewProcess(config) followed by Start().
StartedProcess(config, startOK) ==
    [st |-> IF startOK THEN "running" ELSE "exited", config |-> config]

\* process.Stop: an error when the process is not running; otherwise nil
\* once the child has exited, an error when the signal or the kill fails.
ProcessStopErr(h, stopOK) ==
    IF ~HandleRunning(h) THEN "sing-box is not running"
    ELSE IF stopOK THEN "nil" ELSE "stop failed"

\* Manager.Stop: (m.process afterwards, the error returned).
ManagerStopResult(h, stopOK) ==
    IF h.st = "nil" THEN <<h, "nil">>
    ELSE IF ProcessStopErr(h, stopOK) # "nil"
         THEN <<h, "failed to stop Sing-box">>
         ELSE <<NilHandle, "nil">>

ManagerStop ==
    /\ \E stopOK \in BOOLEAN :
         LET r == ManagerStopResult(manager.process, stopOK) IN
         manager' = [manager EXCEPT
                        !.process = r[1],
                        !.stop = [done |-> TRUE, before |-> manager.process,
                                  after |-> r[1], err |-> r[2]]]
    /\ UNCHANGED exceptManager

\* ApplyConfig: nothing on a parse error or on the running process's own
\* config; otherwise the running process is stopped (a failure is logged)
\* and a new one is started.
ManagerApplyConfig ==
    /\ \E parseOK \in BOOLEAN, newConfig \in NodeConfigs, startOK \in BOOLEAN :
         manager' =
            IF ~parseOK THEN manager
            ELSE IF HandleRunning(manager.process)
                    /\ manager.process.config = newConfig
                 THEN manager
                 ELSE [manager EXCEPT !.config = newConfig,
                                      !.process = StartedProcess(newConfig, startOK)]
    /\ UNCHANGED exceptManager

\* Reload: an error unless a process runs and a config is kept; an error
\* when the stop fails; otherwise a new process is started.
ManagerReload ==
    /\ \E stopOK \in BOOLEAN, startOK \in BOOLEAN :
         manager' =
            IF ~HandleRunning(manager.process) \/ manager.config = 0 THEN manager
            ELSE IF ProcessStopErr(manager.process, stopOK) # "nil" THEN manager
            ELSE [manager EXCEPT !.process = StartedProcess(manager.config, startOK)]
    /\ UNCHANGED exceptManager

\* ForceReload: a new process with the kept config, whatever the stop did.
ManagerForceReload ==
    /\ manager.config # 0
    /\ \E startOK \in BOOLEAN :
         manager' = [manager EXCEPT !.process = StartedProcess(manager.config, startOK)]
    /\ UNCHANGED exceptManager

\* The child exits on its own and Start's goroutine has waited for it.
ManagerProcessExit ==
    /\ HandleRunning(manager.process)
    /\ manager' = [manager EXCEPT !.process.st = "exited"]
    /\ UNCHANGED exceptManager

NextManager ==
    \/ ManagerStop
    \/ ManagerApplyConfig
    \/ ManagerReload
    \/ ManagerForceReload
    \/ ManagerProcessExit

SpecManager == Init /\ [][NextManager]_vars

\* C30: a Stop that was called while the supervised process was not running
\* (never started, or started and exited since) returned nil and left the
\* manager without a process handle.
C30_StopOfStoppedIsNil ==
    (manager.stop.done /\ ~HandleRunning(manager.stop.before))
        => (manager.stop.err = "nil" /\ manager.stop.after = NilHandle)

=============================================================================
